---- MODULE Spec2Model ----
(***************************************************************************)
(* Relay-station store, provider-switch coordinator and command facade of  *)
(* src-tauri/src/commands/{provider.rs, relay_stations.rs}.                *)
(***************************************************************************)
EXTENDS Integers, Sequences, FiniteSets, TLC

(***************************************************************************)
(* Bounds of the model.                                                    *)
(***************************************************************************)
\* how many distinct station ids the inputs draw from
NumStationIds == 2
\* how many distinct token ids the inputs draw from
NumTokenIds == 2
\* how many agent sessions the process registry may hold
NumRunIds == 1

AllStationIds == <<"s1", "s2", "s3", "s4">>
AllTokenIds == <<"t1", "t2", "t3", "t4">>
PresetIds == {"p1", "p2"}
StationIds == {AllStationIds[i] : i \in 1..NumStationIds}
TokenIds == {AllTokenIds[i] : i \in 1..NumTokenIds}
RunIds == 1..NumRunIds

(***************************************************************************)
(* serde_json::Value and Option<String>, as tagged records.                *)
(***************************************************************************)
\* Option::None, and a key that is not in a map
None == [kind |-> "None", str |-> ""]
\* Some(s) of an Option<String>, and serde_json::Value::String(s)
Str(s) == [kind |-> "String", str |-> s]
\* a serde_json::Value that is not a string
Num(s) == [kind |-> "Number", str |-> s]
\* a returned bool
Bool(b) == [kind |-> "Bool", str |-> IF b THEN "true" ELSE "false"]

\* serde_json::Value::as_str
as_str(v) == IF v.kind = "String" THEN v ELSE None
is_some(v) == v.kind # "None"
\* .filter(|s| !s.is_empty())
filter_non_empty(v) == IF is_some(v) /\ v.str # "" THEN v ELSE None

(***************************************************************************)
(* The settings document ~/.claude/settings.json (struct ClaudeSettings).  *)
(***************************************************************************)
ANTHROPIC_BASE_URL == "ANTHROPIC_BASE_URL"
ANTHROPIC_AUTH_TOKEN == "ANTHROPIC_AUTH_TOKEN"
ANTHROPIC_API_KEY == "ANTHROPIC_API_KEY"
ANTHROPIC_MODEL == "ANTHROPIC_MODEL"
WellKnownKeys ==
    {ANTHROPIC_BASE_URL, ANTHROPIC_AUTH_TOKEN, ANTHROPIC_API_KEY, ANTHROPIC_MODEL}
\* the keys of the env map the model follows: the four above and an unrelated one
EnvKeys == WellKnownKeys \cup {"FOO"}
\* the top-level keys (other than env) the model follows
TopKeys == {"theme"}

CanonicalUrl == "https://api.anthropic.com"
RelayUrl == "https://relay.example"
Urls == {CanonicalUrl, RelayUrl}

\* ClaudeSettings { env: Option<HashMap>, other: HashMap }
ClaudeSettings(some, env, other) == [env_is_some |-> some, env |-> env, other |-> other]

\* read_claude_settings when the file does not exist
MissingFile ==
    ClaudeSettings(FALSE, [k \in EnvKeys |-> None], [k \in TopKeys |-> None])

\* the documents the settings file may hold before the first command
InitSettings ==
    {MissingFile} \cup
    { ClaudeSettings(TRUE,
         [k \in EnvKeys |->
             CASE k = ANTHROPIC_BASE_URL -> b
               [] k = ANTHROPIC_AUTH_TOKEN -> a
               [] k = ANTHROPIC_API_KEY -> y
               [] k = ANTHROPIC_MODEL -> None
               [] OTHER -> f],
         [k \in TopKeys |-> Str("dark")]) :
        b \in {None, Str(CanonicalUrl), Str(RelayUrl)},
        a \in {None, Str(""), Str("tok0"), Num("1")},
        y \in {None, Str("key0")},
        f \in {Str("bar"), Num("1")} }

(***************************************************************************)
(* struct ProviderConfig. name and description only feed the text of the   *)
(* returned message and are left out.                                      *)
(***************************************************************************)
ProviderConfig(id, base_url, auth_token, api_key, model) ==
    [id |-> id, base_url |-> base_url, auth_token |-> auth_token,
     api_key |-> api_key, model |-> model]

\* the configs handed to switch_provider_config
SwitchInputs ==
    { ProviderConfig("p1", u, a, y, m) :
        u \in Urls, a \in {None, Str(""), Str("tok")},
        y \in {None, Str("key")}, m \in {None, Str("m")} }

\* the configs handed to add_provider_config and update_provider_config
PresetInputs ==
    { ProviderConfig(i, u, Str("tok"), None, None) : i \in PresetIds, u \in Urls }

NoConfig == ProviderConfig("", "", None, None, None)

VARIABLES
    settings,     \* the settings document on disk
    providers,    \* providers.json: the sequence of stored presets
    stations,     \* table relay_stations: a set of rows
    tokens,       \* table relay_station_tokens: a set of rows
    running,      \* process registry: run ids of the running agent sessions
    killCalls,    \* process registry: run ids kill_process was called with
    forceCalls,   \* process registry: run ids kill_process_by_pid was called with
    last,         \* the command that returned last, and what it returned
    calls,        \* concurrent switch/clear calls: each caller's call and its place in it
    lastWriter,   \* the caller whose write of the settings file came last
    overlapped,   \* whether a call was invoked while another was running
    manager_is_some, \* Mutex<Option<RelayStationManager>>: whether it holds a manager
    stateLock,    \* the task holding the manager-state mutex, or NoTask
    dbLock,       \* the task holding the connection mutex, or NoTask
    task,         \* facade commands: each task's command and its place in it
    clock         \* Utc::now().timestamp(): the epoch second of the system clock

provVars == <<settings, providers>>
storeVars == <<stations, tokens>>
regVars == <<running, killCalls, forceCalls>>
concVars == <<calls, lastWriter, overlapped>>
facadeVars == <<manager_is_some, stateLock, dbLock, task>>
asyncVars == <<concVars, facadeVars>>
vars == <<settings, providers, stations, tokens, running, killCalls, forceCalls, last,
          calls, lastWriter, overlapped, manager_is_some, stateLock, dbLock, task,
          clock>>

\* what a command leaves in `last`
Returned(op, ok, config, value) ==
    [op |-> op, ok |-> ok, config |-> config, value |-> value]

(***************************************************************************)
(* The callers and tasks of the concurrent parts, at rest.                 *)
(***************************************************************************)
Callers == {"a", "b"}
Tasks == {"t1", "t2"}
NoTask == "none"

\* a caller that has not called
IdleCall == [status |-> "idle", op |-> "", config |-> NoConfig, idx |-> 0, buf |-> MissingFile]

\* a task that runs no command
IdleTask == [pc |-> "idle", cmd |-> "", station_id |-> "", station |-> None, result |-> ""]

ConcIdle ==
    /\ calls = [c \in Callers |-> IdleCall]
    /\ lastWriter = ""
    /\ overlapped = FALSE

FacadeIdle ==
    /\ manager_is_some = TRUE
    /\ stateLock = NoTask
    /\ dbLock = NoTask
    /\ task = [t \in Tasks |-> IdleTask]

(***************************************************************************)
(* provider.rs: the settings document.                                     *)
(***************************************************************************)
\* update_settings_env that writes back only the env map
update_settings_env_drops_other(doc, key, value) ==
    ClaudeSettings(TRUE, [doc.env EXCEPT ![key] = value], [k \in TopKeys |-> None])

\* update_settings_env that keeps the value of a key the document already has
update_settings_env_keeps_present(doc, key, value) ==
    ClaudeSettings(TRUE,
        [doc.env EXCEPT ![key] = IF is_some(value) /\ is_some(@) THEN @ ELSE value],
        doc.other)

\* update_settings_env: read the document, make env a map, insert or remove
\* the key, write the document back
update_settings_env(doc, key, value) ==
    ClaudeSettings(TRUE, [doc.env EXCEPT ![key] = value], doc.other)

\* switch_updates that writes an empty string where the config has no value
switch_updates_writes_empty(config) ==
    << <<ANTHROPIC_BASE_URL, Str(config.base_url)>>,
       <<ANTHROPIC_AUTH_TOKEN, IF is_some(config.auth_token) THEN config.auth_token ELSE Str("")>>,
       <<ANTHROPIC_API_KEY, IF is_some(config.api_key) THEN config.api_key ELSE Str("")>>,
       <<ANTHROPIC_MODEL, IF is_some(config.model) THEN config.model ELSE Str("")>> >>

\* the update_settings_env calls of switch_provider_config, in order
switch_updates(config) ==
    << <<ANTHROPIC_BASE_URL, Str(config.base_url)>>,
       <<ANTHROPIC_AUTH_TOKEN, config.auth_token>>,
       <<ANTHROPIC_API_KEY, config.api_key>>,
       <<ANTHROPIC_MODEL, config.model>> >>

\* vars_to_clear that blanks the model instead of removing it
vars_to_clear_blanks_model ==
    << <<ANTHROPIC_API_KEY, None>>, <<ANTHROPIC_AUTH_TOKEN, None>>,
       <<ANTHROPIC_BASE_URL, None>>, <<ANTHROPIC_MODEL, Str("")>> >>

\* the update_settings_env calls of clear_provider_config, in order
vars_to_clear ==
    << <<ANTHROPIC_API_KEY, None>>, <<ANTHROPIC_AUTH_TOKEN, None>>,
       <<ANTHROPIC_BASE_URL, None>>, <<ANTHROPIC_MODEL, None>> >>

\* the document after the first n calls of `updates`
RECURSIVE apply_updates(_, _, _)
apply_updates(doc, updates, n) ==
    IF n = 0 THEN doc
    ELSE update_settings_env(apply_updates(doc, updates, n - 1),
                             updates[n][1], updates[n][2])

\* which update_settings_env call of a command returns Err (0: none does). A
\* failed call leaves the file as it found it; the `?` after it returns at once
FailPoints == 0..4

\* the document after a run of calls of which call failAt fails
run_updates(doc, updates, failAt) ==
    apply_updates(doc, updates, IF failAt = 0 THEN Len(updates) ELSE failAt - 1)

\* the update_settings_env call that failed, 0 when none did
FailedAt(failAt) == [kind |-> "FailedAt", str |-> "", at |-> failAt]

\* switch_provider_config that writes nothing while a session is running
switch_provider_config_awaits_sessions(doc, config, failAt) ==
    IF running = {} THEN run_updates(doc, switch_updates(config), failAt) ELSE doc

\* switch_provider_config: the document it leaves
switch_provider_config(doc, config, failAt) ==
    run_updates(doc, switch_updates(config), failAt)

\* clear_provider_config: the document it leaves
clear_provider_config(doc, failAt) ==
    run_updates(doc, vars_to_clear, failAt)

\* has_auth without the filter on empty strings
has_auth_counts_empty(doc) ==
    \/ is_some(as_str(doc.env[ANTHROPIC_AUTH_TOKEN]))
    \/ is_some(as_str(doc.env[ANTHROPIC_API_KEY]))

\* has_auth of detect_current_provider and is_provider_applied
has_auth(doc) ==
    \/ is_some(filter_non_empty(as_str(doc.env[ANTHROPIC_AUTH_TOKEN])))
    \/ is_some(filter_non_empty(as_str(doc.env[ANTHROPIC_API_KEY])))

\* the id of the first provider of the list whose base_url is url, or None
RECURSIVE first_provider_with(_, _)
first_provider_with(provs, url) ==
    IF provs = << >> THEN None
    ELSE IF Head(provs).base_url = url THEN Str(Head(provs).id)
    ELSE first_provider_with(Tail(provs), url)

\* detect_current_provider that tests the canonical endpoint before the presets
detect_current_provider_official_first(doc, provs) ==
    IF doc.env_is_some
    THEN LET base_url == as_str(doc.env[ANTHROPIC_BASE_URL]) IN
         IF is_some(base_url) /\ has_auth(doc)
         THEN LET found == first_provider_with(provs, base_url.str) IN
              IF base_url.str = CanonicalUrl THEN Str("official")
              ELSE IF is_some(found) THEN found
              ELSE Str("custom")
         ELSE None
    ELSE None

\* detect_current_provider: Some(id), or None
detect_current_provider(doc, provs) ==
    IF doc.env_is_some
    THEN LET base_url == as_str(doc.env[ANTHROPIC_BASE_URL]) IN
         IF is_some(base_url) /\ has_auth(doc)
         THEN LET found == first_provider_with(provs, base_url.str) IN
              IF is_some(found) THEN found
              ELSE IF base_url.str = CanonicalUrl THEN Str("official")
              ELSE Str("custom")
         ELSE None
    ELSE None

\* is_provider_applied that takes any env map for an applied provider
is_provider_applied_any_env(doc) == doc.env_is_some

\* is_provider_applied
is_provider_applied(doc) ==
    IF doc.env_is_some
    THEN LET base_url == as_str(doc.env[ANTHROPIC_BASE_URL]) IN
         is_some(base_url) /\ (base_url # Str(CanonicalUrl) \/ has_auth(doc))
    ELSE FALSE

(***************************************************************************)
(* provider.rs: the commands. Neither switch_provider_config nor           *)
(* clear_provider_config takes the AppHandle or calls                      *)
(* terminate_claude_processes, which no function of the file calls: the    *)
(* process registry is left as it is.                                      *)
(***************************************************************************)
\* last.value records which update_settings_env call failed
SwitchProviderConfig(config, failAt) ==
    /\ settings' = switch_provider_config(settings, config, failAt)
    /\ last' = Returned("switch", failAt = 0, config, FailedAt(failAt))
    /\ UNCHANGED <<clock, providers, storeVars, regVars, asyncVars>>

\* last.value records whether the command before it was a successful clear
ClearProviderConfig(failAt) ==
    /\ settings' = clear_provider_config(settings, failAt)
    /\ last' = Returned("clear", failAt = 0, NoConfig,
                        Bool(last.op = "clear" /\ last.ok))
    /\ UNCHANGED <<clock, providers, storeVars, regVars, asyncVars>>

DetectCurrentProvider ==
    /\ last' = Returned("detect", TRUE, NoConfig,
                        detect_current_provider(settings, providers))
    /\ UNCHANGED <<clock, provVars, storeVars, regVars, asyncVars>>

IsProviderApplied ==
    /\ last' = Returned("is_applied", TRUE, NoConfig,
                        Bool(is_provider_applied(settings)))
    /\ UNCHANGED <<clock, provVars, storeVars, regVars, asyncVars>>

\* a test for a stored id that never finds one
has_provider_never(provs, id) == FALSE

\* providers.iter().any(|p| p.id == id)
has_provider(provs, id) == \E i \in 1..Len(provs) : provs[i].id = id

\* providers.iter().position(|p| p.id == id), where there is one
position(provs, id) ==
    CHOOSE i \in 1..Len(provs) :
        provs[i].id = id /\ \A j \in 1..(i - 1) : provs[j].id # id

\* Vec::remove(index)
remove(provs, index) ==
    [i \in 1..(Len(provs) - 1) |-> IF i < index THEN provs[i] ELSE provs[i + 1]]

\* add_provider_config: the list it saves
add_provider_config(provs, config) == Append(provs, config)

\* update_provider_config: the list it saves
update_provider_config(provs, config) ==
    [provs EXCEPT ![position(provs, config.id)] = config]

\* delete_provider_config: the list it saves
delete_provider_config(provs, id) == remove(provs, position(provs, id))

\* saved: whether save_providers_to_file wrote the file
AddProviderConfig(config, saved) ==
    /\ IF has_provider(providers, config.id)
       THEN /\ providers' = providers
            /\ last' = Returned("add_provider", FALSE, config, None)
       ELSE /\ providers' = IF saved THEN add_provider_config(providers, config)
                            ELSE providers
            /\ last' = Returned("add_provider", saved, config, None)
    /\ UNCHANGED <<clock, settings, storeVars, regVars, asyncVars>>

UpdateProviderConfig(config, saved) ==
    /\ IF ~has_provider(providers, config.id)
       THEN /\ providers' = providers
            /\ last' = Returned("update_provider", FALSE, config, None)
       ELSE /\ providers' = IF saved THEN update_provider_config(providers, config)
                            ELSE providers
            /\ last' = Returned("update_provider", saved, config, None)
    /\ UNCHANGED <<clock, settings, storeVars, regVars, asyncVars>>

DeleteProviderConfig(id, saved) ==
    /\ IF ~has_provider(providers, id)
       THEN /\ providers' = providers
            /\ last' = Returned("delete_provider", FALSE, NoConfig, Str(id))
       ELSE /\ providers' = IF saved THEN delete_provider_config(providers, id)
                            ELSE providers
            /\ last' = Returned("delete_provider", saved, NoConfig, Str(id))
    /\ UNCHANGED <<clock, settings, storeVars, regVars, asyncVars>>

(***************************************************************************)
(* relay_stations.rs: the records and their rows.                          *)
(***************************************************************************)
\* a HashMap<String, serde_json::Value> {"region": r}
Map(r) == [kind |-> "Map", str |-> r]
Regions == {"eu"}

\* serde_json::to_string of such a map
to_string(m) == "{\"region\":\"" \o m.str \o "\"}"

\* serde_json::from_str(text).ok(): the map the text denotes, None for any other text
from_str(text) ==
    IF \E r \in Regions : to_string(Map(r)) = text
    THEN Map(CHOOSE r \in Regions : to_string(Map(r)) = text)
    ELSE None

\* the adapter column of add_station
adapter_to_text(a) ==
    CASE a = "Newapi" -> "newapi" [] a = "Oneapi" -> "oneapi" [] a = "Custom" -> "custom"

\* the adapter column read back by list_stations and get_station
text_to_adapter(t) ==
    CASE t = "newapi" -> "Newapi" [] t = "oneapi" -> "Oneapi"
      [] t = "custom" -> "Custom" [] OTHER -> "Newapi"

\* the auth_method column of add_station
auth_method_to_text(a) ==
    CASE a = "BearerToken" -> "bearer_token" [] a = "ApiKey" -> "api_key"
      [] a = "Custom" -> "custom"

\* text_to_auth_method that matches the variants' names, not their column texts
text_to_auth_method_unrenamed(t) ==
    CASE t = "BearerToken" -> "BearerToken" [] t = "ApiKey" -> "ApiKey"
      [] t = "Custom" -> "Custom" [] OTHER -> "BearerToken"

\* the auth_method column read back by list_stations and get_station
text_to_auth_method(t) ==
    CASE t = "bearer_token" -> "BearerToken" [] t = "api_key" -> "ApiKey"
      [] t = "custom" -> "Custom" [] OTHER -> "BearerToken"

\* the row add_station inserts for a RelayStation
station_row(station) ==
    [id |-> station.id, name |-> station.name, description |-> station.description,
     api_url |-> station.api_url, adapter |-> adapter_to_text(station.adapter),
     auth_method |-> auth_method_to_text(station.auth_method),
     system_token |-> station.system_token, user_id |-> station.user_id,
     adapter_config |-> IF is_some(station.adapter_config)
                        THEN Str(to_string(station.adapter_config)) ELSE None,
     enabled |-> IF station.enabled THEN 1 ELSE 0,
     created_at |-> station.created_at, updated_at |-> station.updated_at]

\* the RelayStation list_stations and get_station build from a row
row_station(row) ==
    [id |-> row.id, name |-> row.name, description |-> row.description,
     api_url |-> row.api_url, adapter |-> text_to_adapter(row.adapter),
     auth_method |-> text_to_auth_method(row.auth_method),
     system_token |-> row.system_token, user_id |-> row.user_id,
     adapter_config |-> IF is_some(row.adapter_config)
                        THEN from_str(row.adapter_config.str) ELSE None,
     enabled |-> row.enabled # 0,
     created_at |-> row.created_at, updated_at |-> row.updated_at]

\* the row add_token inserts for a RelayStationToken
token_row(token) ==
    [id |-> token.id, station_id |-> token.station_id, name |-> token.name,
     token |-> token.token, user_id |-> token.user_id,
     enabled |-> IF token.enabled THEN 1 ELSE 0, expires_at |-> token.expires_at,
     metadata |-> IF is_some(token.metadata)
                  THEN Str(to_string(token.metadata)) ELSE None,
     created_at |-> token.created_at]

\* the RelayStationToken list_tokens builds from a row
row_token(row) ==
    [id |-> row.id, station_id |-> row.station_id, name |-> row.name,
     token |-> row.token, user_id |-> row.user_id, enabled |-> row.enabled # 0,
     expires_at |-> row.expires_at,
     metadata |-> IF is_some(row.metadata) THEN from_str(row.metadata.str) ELSE None,
     created_at |-> row.created_at]

\* the latest epoch second a record's timestamps are drawn from
MaxTime == 2
Times == 1..MaxTime

\* the stations handed to add_station
StationInputs ==
    { [id |-> i, name |-> "relay", description |-> None, api_url |-> u,
       adapter |-> "Newapi", auth_method |-> "BearerToken", system_token |-> "sys",
       user_id |-> None, adapter_config |-> c, enabled |-> TRUE,
       created_at |-> t, updated_at |-> t] :
        i \in StationIds, u \in {RelayUrl}, c \in {None, Map("eu")}, t \in Times }

\* the tokens handed to add_token
TokenInputs ==
    { [id |-> i, station_id |-> s, name |-> "tok", token |-> "sk", user_id |-> None,
       enabled |-> TRUE, expires_at |-> None, metadata |-> None, created_at |-> t] :
        i \in TokenIds, s \in StationIds, t \in {1} }

(***************************************************************************)
(* relay_stations.rs: RelayStationManager.                                 *)
(***************************************************************************)
\* a connection that does not enforce foreign keys
foreign_keys_off == FALSE

\* whether the connection enforces foreign keys. The connection is opened
\* outside these files; the schema and the documented design rely on it
foreign_keys == TRUE

\* id TEXT PRIMARY KEY of either table
has_id(rows, id) == \E r \in rows : r.id = id

\* the foreign key without its ON DELETE CASCADE clause
on_delete_no_action(toks, station_id) == toks

\* FOREIGN KEY (station_id) REFERENCES relay_stations (id) ON DELETE CASCADE:
\* the token rows that remain once the station row is deleted
on_delete_cascade(toks, station_id) == {t \in toks : t.station_id # station_id}

\* DELETE FROM relay_stations WHERE id = ?1
delete_station_rows(rows, station_id) == {r \in rows : r.id # station_id}

\* a RelayStation handed to add_station, and a returned Option<RelayStation>
SomeStation(station) == [kind |-> "Station", str |-> station.id, station |-> station]

\* add_station into a table whose id is no primary key
add_station_no_primary_key(rows, station) == rows \cup {station_row(station)}

\* add_station: the rows after INSERT INTO relay_stations, which fails on a
\* taken primary key
add_station(rows, station) ==
    IF has_id(rows, station.id) THEN rows ELSE rows \cup {station_row(station)}

AddStation(station) ==
    /\ stations' = add_station(stations, station)
    /\ last' = Returned("add_station", ~has_id(stations, station.id), NoConfig,
                        SomeStation(station))
    /\ UNCHANGED <<clock, provVars, tokens, regVars, asyncVars>>

\* what DeleteStation records: the id, and how many token rows referenced it
Deleted(station_id, owned) ==
    [kind |-> "Deleted", str |-> station_id, owned |-> Cardinality(owned)]

\* delete_station, with the cascade of the tokens table
DeleteStation(station_id) ==
    /\ stations' = delete_station_rows(stations, station_id)
    /\ tokens' = IF foreign_keys THEN on_delete_cascade(tokens, station_id) ELSE tokens
    /\ last' = Returned("delete_station", TRUE, NoConfig,
                        Deleted(station_id, {t \in tokens : t.station_id = station_id}))
    /\ UNCHANGED <<clock, provVars, regVars, asyncVars>>

\* INSERT INTO relay_station_tokens: the error of a taken primary key or of a
\* station_id that references no station
AddToken(token) ==
    /\ IF \/ has_id(tokens, token.id)
          \/ foreign_keys /\ ~has_id(stations, token.station_id)
       THEN /\ tokens' = tokens
            /\ last' = Returned("add_token", FALSE, NoConfig, Str(token.id))
       ELSE /\ tokens' = tokens \cup {token_row(token)}
            /\ last' = Returned("add_token", TRUE, NoConfig, Str(token.id))
    /\ UNCHANGED <<clock, provVars, stations, regVars, asyncVars>>

\* DELETE FROM relay_station_tokens WHERE id = ?1
DeleteToken(token_id) ==
    /\ tokens' = {t \in tokens : t.id # token_id}
    /\ last' = Returned("delete_token", TRUE, NoConfig, Str(token_id))
    /\ UNCHANGED <<clock, provVars, stations, regVars, asyncVars>>

\* ORDER BY created_at ASC: oldest first
order_by_created_at_asc(rows) ==
    { q \in [1..Cardinality(rows) -> rows] :
        /\ \A i, j \in 1..Cardinality(rows) : i # j => q[i] # q[j]
        /\ \A i, j \in 1..Cardinality(rows) :
              i < j => q[i].created_at <= q[j].created_at }

\* the orders ORDER BY created_at DESC may return the rows in
order_by_created_at_desc(rows) ==
    { q \in [1..Cardinality(rows) -> rows] :
        /\ \A i, j \in 1..Cardinality(rows) : i # j => q[i] # q[j]
        /\ \A i, j \in 1..Cardinality(rows) :
              i < j => q[i].created_at >= q[j].created_at }

\* a returned list
List(items) == [kind |-> "List", str |-> "", items |-> items]

\* list_tokens: SELECT * FROM relay_station_tokens WHERE station_id = ?1
list_tokens(toks, station_id) ==
    { [i \in DOMAIN q |-> row_token(q[i])] :
        q \in order_by_created_at_desc({t \in toks : t.station_id = station_id}) }

ListTokens(station_id) ==
    /\ \E items \in list_tokens(tokens, station_id) :
          last' = Returned("list_tokens", TRUE, NoConfig,
                           [List(items) EXCEPT !.str = station_id])
    /\ UNCHANGED <<clock, provVars, storeVars, regVars, asyncVars>>

\* get_station: SELECT * FROM relay_stations WHERE id = ?1
get_station(rows, station_id) ==
    IF has_id(rows, station_id)
    THEN SomeStation(row_station(CHOOSE r \in rows : r.id = station_id))
    ELSE None

GetStation(station_id) ==
    /\ last' = Returned("get_station", TRUE, NoConfig,
                        [get_station(stations, station_id) EXCEPT !.str = station_id])
    /\ UNCHANGED <<clock, provVars, storeVars, regVars, asyncVars>>

(***************************************************************************)
(* relay_stations.rs: update_station and update_token. An updates map is a *)
(* function from its keys to their values.                                 *)
(***************************************************************************)
\* the keys update_station turns into a "column = ?" part
StationColumns == {"name", "description", "api_url", "system_token", "user_id", "enabled"}

\* the keys update_token turns into a "column = ?" part
TokenColumns == {"name", "token", "user_id", "enabled"}

\* value.as_str().unwrap_or("").to_string()
text_or_empty(value) == IF value.kind = "String" THEN value.str ELSE ""

\* Text(s) for a string value, Null for any other
text_or_null(value) == IF value.kind = "String" THEN Str(value.str) ELSE None

\* if value.as_bool().unwrap_or(false) { 1 } else { 0 }
bool_or_false(value) == IF value = Bool(TRUE) THEN 1 ELSE 0

\* the parameter bound to the "column = ?" part of a key
param(key, value) ==
    CASE key \in {"name", "api_url", "system_token", "token"} -> text_or_empty(value)
      [] key \in {"description", "user_id"} -> text_or_null(value)
      [] key = "enabled" -> bool_or_false(value)

\* the orders a HashMap hands its keys over in
iterations(updates) ==
    { q \in [1..Cardinality(DOMAIN updates) -> DOMAIN updates] :
        \A i, j \in 1..Cardinality(DOMAIN updates) : i # j => q[i] # q[j] }

\* the second `for (key, value) in updates`: the map is the one of the first
\* pass, unchanged, so its keys come in the same order
second_pass(order) == order

\* the recognized keys of a pass, in its order
recognized(order, columns) == SelectSeq(order, LAMBDA k : k \in columns)

\* query_parts: one "column = ?" for each recognized key of the first pass
query_parts(order, columns) == recognized(order, columns)

\* params_vec: one parameter for each recognized key of the second pass
params_vec(order, columns, updates) ==
    LET keys == recognized(second_pass(order), columns) IN
    [i \in DOMAIN keys |-> param(keys[i], updates[keys[i]])]

\* SET of the UPDATE statement: the column of the i-th part takes the i-th
\* parameter
set_columns(row, parts, params) ==
    [c \in DOMAIN row |->
        IF \E i \in DOMAIN parts : parts[i] = c
        THEN params[CHOOSE i \in DOMAIN parts : parts[i] = c] ELSE row[c]]

\* the UPDATE of update_station without its WHERE id = ? clause
update_where_any(row_id, station_id) == TRUE

\* WHERE id = ? of the UPDATE statements
update_where_id(row_id, station_id) == row_id = station_id

\* update_station that pushes "updated_at = ?" after the statement is built
stamp_updated_at_dropped(row, timestamp) == row

\* query_parts.push("updated_at = ?") and its parameter
stamp_updated_at(row, timestamp) == [row EXCEPT !.updated_at = timestamp]

\* update_station: the rows it leaves. With no recognized key in the map no
\* statement is executed
update_station(rows, station_id, updates, order, timestamp) ==
    IF query_parts(order, StationColumns) = << >> THEN rows
    ELSE { IF update_where_id(r.id, station_id)
           THEN stamp_updated_at(
                   set_columns(r, query_parts(order, StationColumns),
                               params_vec(order, StationColumns, updates)), timestamp)
           ELSE r : r \in rows }

\* update_token: the rows it leaves
update_token(toks, token_id, updates, order) ==
    IF query_parts(order, TokenColumns) = << >> THEN toks
    ELSE { IF update_where_id(t.id, token_id)
           THEN set_columns(t, query_parts(order, TokenColumns),
                            params_vec(order, TokenColumns, updates))
           ELSE t : t \in toks }

\* what an update records: the id and the updates map
Update(id, updates) == [kind |-> "Update", str |-> id, updates |-> updates]

\* the updates maps handed to update_station
StationUpdates ==
    { << >>,
      [k \in {"color"} |-> Str("red")],
      [k \in {"name"} |-> Str("X")],
      [k \in {"name", "color"} |-> IF k = "name" THEN Str("X") ELSE Str("red")],
      [k \in {"name"} |-> Num("1")],
      [k \in {"enabled"} |-> Bool(FALSE)] }

\* the updates maps handed to update_token
TokenUpdates ==
    { << >>,
      [k \in {"name"} |-> Str("X")],
      [k \in {"station_id"} |-> Str("s0")] }

UpdateStation(station_id, updates) ==
    /\ \E order \in iterations(updates) :
          stations' = update_station(stations, station_id, updates, order, clock)
    /\ last' = Returned("update_station", TRUE, NoConfig, Update(station_id, updates))
    /\ UNCHANGED <<clock, provVars, tokens, regVars, asyncVars>>

UpdateToken(token_id, updates) ==
    /\ \E order \in iterations(updates) :
          tokens' = update_token(tokens, token_id, updates, order)
    /\ last' = Returned("update_token", TRUE, NoConfig, Update(token_id, updates))
    /\ UNCHANGED <<clock, provVars, stations, regVars, asyncVars>>

\* the system clock reaches the next second
Tick ==
    /\ clock < MaxTime
    /\ clock' = clock + 1
    /\ last' = Returned("tick", TRUE, NoConfig, None)
    /\ UNCHANGED <<provVars, storeVars, regVars, asyncVars>>

(***************************************************************************)
(* The process registry (crate::process), as provider.rs uses it.          *)
(***************************************************************************)
\* an agent session starts and is registered
SpawnSession(run_id) ==
    /\ run_id \notin running
    /\ running' = running \cup {run_id}
    /\ last' = Returned("spawn", TRUE, NoConfig, None)
    /\ UNCHANGED <<clock, provVars, storeVars, killCalls, forceCalls, asyncVars>>

\* what the registry's calls return during one run of
\* terminate_claude_processes: get_running_claude_sessions (Ok or Err),
\* kill_process by run id, kill_process_by_pid by run id (Ok or Err)
KillResults == {"Ok(true)", "Ok(false)", "Err"}
Outcomes ==
    [sessions : BOOLEAN, kill : [RunIds -> KillResults], forced : [RunIds -> BOOLEAN]]

\* what a run of terminate_claude_processes records: what the registry
\* returned and the calls made on it, in order
Terminated(outcome, log) ==
    [kind |-> "Terminated", str |-> "", outcome |-> outcome, log |-> log]

\* match registry.0.get_running_claude_sessions(): the sessions the loop
\* goes through, none when the call returned Err
get_running_claude_sessions(reg, outcome) == IF outcome.sessions THEN reg ELSE {}

\* the orders the registry may hand the sessions over in
enumerations(sessions) ==
    { q \in [1..Cardinality(sessions) -> sessions] :
        \A i, j \in 1..Cardinality(sessions) : i # j => q[i] # q[j] }

\* a call on the registry
Call(name, run_id) == [call |-> name, run_id |-> run_id]

\* the body of the loop for one session: kill_process, and
\* kill_process_by_pid when that returned Ok(false) or Err
attempt(run_id, outcome) ==
    IF outcome.kill[run_id] = "Ok(true)"
    THEN <<Call("kill_process", run_id)>>
    ELSE <<Call("kill_process", run_id), Call("kill_process_by_pid", run_id)>>

\* a loop that is left at the first session whose kill_process and
\* kill_process_by_pid both failed
RECURSIVE attempts_until_failure(_, _)
attempts_until_failure(sessions, outcome) ==
    IF sessions = << >> THEN << >>
    ELSE IF outcome.kill[Head(sessions)] # "Ok(true)" /\ ~outcome.forced[Head(sessions)]
    THEN attempt(Head(sessions), outcome)
    ELSE attempt(Head(sessions), outcome)
            \o attempts_until_failure(Tail(sessions), outcome)

\* for session in sessions { .. }: the calls made, in order
RECURSIVE attempts(_, _)
attempts(sessions, outcome) ==
    IF sessions = << >> THEN << >>
    ELSE attempt(Head(sessions), outcome) \o attempts(Tail(sessions), outcome)

\* the sessions the named call was made on
called(log, name) == {log[i].run_id : i \in {j \in DOMAIN log : log[j].call = name}}

\* the registry after the kills: a session leaves it when its kill_process
\* returned Ok(true) or its kill_process_by_pid returned Ok
after_kills(reg, sessions, outcome) ==
    reg \ {r \in sessions : outcome.kill[r] = "Ok(true)" \/ outcome.forced[r]}

\* terminate_claude_processes: every failure is logged and the routine
\* returns (). No command of provider.rs calls it
TerminateClaudeProcesses(outcome) ==
    \E sessions \in enumerations(get_running_claude_sessions(running, outcome)) :
       LET log == attempts(sessions, outcome) IN
       /\ killCalls' = killCalls \cup called(log, "kill_process")
       /\ forceCalls' = forceCalls \cup called(log, "kill_process_by_pid")
       /\ running' = after_kills(running, called(log, "kill_process"), outcome)
       /\ last' = Returned("terminate", TRUE, NoConfig, Terminated(outcome, log))
       /\ UNCHANGED <<clock, provVars, storeVars, asyncVars>>

(***************************************************************************)
(* The provider coordinator: its commands run one after the other.         *)
(***************************************************************************)
\* the stations stored while the provider commands run
ProviderStationInputs == {s \in StationInputs : s.adapter_config = None /\ s.created_at = 1}

Init ==
    /\ settings \in InitSettings
    /\ providers = << >>
    /\ stations = {}
    /\ tokens = {}
    /\ running = {}
    /\ killCalls = {}
    /\ forceCalls = {}
    /\ last = Returned("init", TRUE, NoConfig, None)
    /\ ConcIdle
    /\ FacadeIdle
    /\ clock = 1

Next ==
    \/ \E config \in SwitchInputs, failAt \in FailPoints :
          SwitchProviderConfig(config, failAt)
    \/ \E failAt \in FailPoints : ClearProviderConfig(failAt)
    \/ IsProviderApplied
    \/ \E run_id \in RunIds : SpawnSession(run_id)

Spec == Init /\ [][Next]_vars

(***************************************************************************)
(* Detection: the settings document, the presets and the stations.         *)
(***************************************************************************)
\* the configs switched to while detection is followed
DetectSwitchInputs == {c \in SwitchInputs : c.api_key = None /\ c.model = None}

\* the calls that fail here: none, or the one after the base URL is written
DetectFailPoints == {f \in FailPoints : f \in {0, 2}}

DetectNext ==
    \/ \E config \in DetectSwitchInputs, failAt \in DetectFailPoints :
          SwitchProviderConfig(config, failAt)
    \/ \E failAt \in DetectFailPoints : ClearProviderConfig(failAt)
    \/ DetectCurrentProvider
    \/ \E config \in PresetInputs, saved \in BOOLEAN : AddProviderConfig(config, saved)
    \/ \E config \in PresetInputs, saved \in BOOLEAN : UpdateProviderConfig(config, saved)
    \/ \E id \in PresetIds, saved \in BOOLEAN : DeleteProviderConfig(id, saved)
    \/ \E station \in ProviderStationInputs : AddStation(station)
    \/ \E id \in StationIds : DeleteStation(id)

DetectInit == Init /\ settings.env["FOO"] # Num("1")

SpecDetect == DetectInit /\ [][DetectNext]_vars

(***************************************************************************)
(* The termination routine beside the switch: terminate_claude_processes   *)
(* run on its own, with every outcome of the registry's calls.             *)
(***************************************************************************)
TerminateNext ==
    \/ \E config \in DetectSwitchInputs, failAt \in FailPoints :
          SwitchProviderConfig(config, failAt)
    \/ \E run_id \in RunIds : SpawnSession(run_id)
    \/ \E outcome \in Outcomes : TerminateClaudeProcesses(outcome)

TerminateInit ==
    /\ Init
    /\ settings.env["FOO"] # Num("1")
    /\ settings.env[ANTHROPIC_API_KEY] = None
    /\ settings.env[ANTHROPIC_AUTH_TOKEN] \in {None, Str("tok0")}

SpecTerminate == TerminateInit /\ [][TerminateNext]_vars

(***************************************************************************)
(* The coordinator with its reads: switch, clear, the two queries and the  *)
(* preset list.                                                            *)
(***************************************************************************)
ClearedNext ==
    \/ \E config \in DetectSwitchInputs, failAt \in DetectFailPoints :
          SwitchProviderConfig(config, failAt)
    \/ \E failAt \in DetectFailPoints : ClearProviderConfig(failAt)
    \/ DetectCurrentProvider
    \/ IsProviderApplied
    \/ \E config \in PresetInputs, saved \in BOOLEAN : AddProviderConfig(config, saved)
    \/ \E id \in PresetIds, saved \in BOOLEAN : DeleteProviderConfig(id, saved)

SpecCleared == DetectInit /\ [][ClearedNext]_vars

(***************************************************************************)
(* The preset list: providers.json holds any list of presets with distinct *)
(* ids, and the three commands that write it run one after the other.      *)
(***************************************************************************)
\* the lists of presets with distinct ids
StoredPresets ==
    { l \in UNION { [1..n -> PresetInputs] : n \in 0..Cardinality(PresetIds) } :
        \A i, j \in DOMAIN l : i # j => l[i].id # l[j].id }

PresetInit ==
    /\ settings = MissingFile
    /\ providers \in StoredPresets
    /\ stations = {}
    /\ tokens = {}
    /\ running = {}
    /\ killCalls = {}
    /\ forceCalls = {}
    /\ last = Returned("init", TRUE, NoConfig, None)
    /\ ConcIdle
    /\ FacadeIdle
    /\ clock = 1

PresetNext ==
    \/ \E config \in PresetInputs, saved \in BOOLEAN : AddProviderConfig(config, saved)
    \/ \E config \in PresetInputs, saved \in BOOLEAN : UpdateProviderConfig(config, saved)
    \/ \E id \in PresetIds, saved \in BOOLEAN : DeleteProviderConfig(id, saved)

SpecPresets == PresetInit /\ [][PresetNext]_vars

(***************************************************************************)
(* The termination routine over two sessions, run on its own.              *)
(***************************************************************************)
\* the run ids of the two sessions
RoutineRunIds == {1, 2}

\* what the registry's calls return during one run over them
RoutineOutcomes ==
    [sessions : BOOLEAN, kill : [RoutineRunIds -> KillResults],
     forced : [RoutineRunIds -> BOOLEAN]]

RoutineInit ==
    /\ settings = MissingFile
    /\ providers = << >>
    /\ stations = {}
    /\ tokens = {}
    /\ running = {}
    /\ killCalls = {}
    /\ forceCalls = {}
    /\ last = Returned("init", TRUE, NoConfig, None)
    /\ ConcIdle
    /\ FacadeIdle
    /\ clock = 1

RoutineNext ==
    \/ \E run_id \in RoutineRunIds : SpawnSession(run_id)
    \/ \E outcome \in RoutineOutcomes : TerminateClaudeProcesses(outcome)

SpecRoutine == RoutineInit /\ [][RoutineNext]_vars

(***************************************************************************)
(* The store: the manager's operations run one after the other.            *)
(***************************************************************************)
StoreInit ==
    /\ settings = MissingFile
    /\ providers = << >>
    /\ stations = {}
    /\ tokens = {}
    /\ running = {}
    /\ killCalls = {}
    /\ forceCalls = {}
    /\ last = Returned("init", TRUE, NoConfig, None)
    /\ ConcIdle
    /\ FacadeIdle
    /\ clock = 1

\* the stations stored while the tokens are followed
StoreStationInputs == {s \in StationInputs : s.created_at = 1}

StoreNext ==
    \/ \E station \in StoreStationInputs : AddStation(station)
    \/ \E id \in StationIds : DeleteStation(id)
    \/ \E token \in TokenInputs : AddToken(token)
    \/ \E id \in TokenIds : DeleteToken(id)
    \/ \E id \in StationIds : ListTokens(id)
    \/ \E id \in StationIds : GetStation(id)

SpecStore == StoreInit /\ [][StoreNext]_vars

(***************************************************************************)
(* The tokens of the store: every operation that writes a token row or     *)
(* removes a station row.                                                  *)
(***************************************************************************)
TokenNext ==
    \/ \E station \in ProviderStationInputs : AddStation(station)
    \/ \E id \in StationIds : DeleteStation(id)
    \/ \E token \in TokenInputs : AddToken(token)
    \/ \E id \in TokenIds, updates \in TokenUpdates : UpdateToken(id, updates)
    \/ \E id \in TokenIds : DeleteToken(id)

SpecTokens == StoreInit /\ [][TokenNext]_vars

(***************************************************************************)
(* Round trip of a station through its row: every adapter, auth method and *)
(* optional field, under one id.                                           *)
(***************************************************************************)
\* the stations handed to add_station
RoundTripInputs ==
    { [id |-> AllStationIds[1], name |-> "relay", description |-> d, api_url |-> RelayUrl,
       adapter |-> a, auth_method |-> m, system_token |-> "sys",
       user_id |-> u, adapter_config |-> c, enabled |-> e,
       created_at |-> 1, updated_at |-> 1] :
        d \in {None, Str("d")}, a \in {"Newapi", "Oneapi", "Custom"},
        m \in {"BearerToken", "ApiKey", "Custom"}, u \in {None, Str("u")},
        c \in {None, Map("eu")}, e \in BOOLEAN }

RoundTripNext ==
    \/ \E station \in RoundTripInputs : AddStation(station)
    \/ GetStation(AllStationIds[1])
    \/ DeleteStation(AllStationIds[1])

SpecRoundTrip == StoreInit /\ [][RoundTripNext]_vars

(***************************************************************************)
(* relay_stations.rs: NewApiAdapter. Each operation sends one request and  *)
(* turns what comes back into its result.                                  *)
(***************************************************************************)
\* the HTTP status codes a relay answers with
Statuses == {200, 204, 304, 401, 404, 500}

\* what the body of an answer parses to: a JSON document whose "data" is an
\* object, one whose "data" is not, and text that is no JSON
Bodies == {"data_object", "data_other", "not_json"}

\* .send().await returned Err: no answer (unreachable host, timeout)
TransportFailure == [sent |-> FALSE, status |-> 0, body |-> "none"]

\* what .send().await returns
Responses == {TransportFailure} \cup [sent : {TRUE}, status : Statuses, body : Bodies]

\* StatusCode::is_success that takes every status below 500 for a success
is_success_below_500(status) == status < 500

\* StatusCode::is_success
is_success(status) == status >= 200 /\ status <= 299

\* the operations of the adapter other than test_connection
RequestOperations ==
    {"get_station_info", "get_user_info", "get_logs", "list_tokens", "create_token",
     "update_token", "delete_token"}

\* the text before the status in the error of a non-2xx answer
failed_to(op) ==
    CASE op = "get_station_info" -> "Failed to get station info"
      [] op = "get_user_info" -> "Failed to get user info"
      [] op = "get_logs" -> "Failed to get logs"
      [] op = "list_tokens" -> "Failed to list tokens"
      [] op = "create_token" -> "Failed to create token"
      [] op = "update_token" -> "Failed to update token"
      [] op = "delete_token" -> "Failed to delete token"

\* Ok(value) of an operation
Ok(value) == [kind |-> "Ok", str |-> "", value |-> value]

\* Err(anyhow!(..)): the message, and the status it prints (None when it
\* prints none)
Err(message, status) == [kind |-> "Err", str |-> message, status |-> status]

\* Some(n) of an Option<u16> or Option<u64>
SomeInt(n) == [kind |-> "Int", str |-> "", int |-> n]

\* the milliseconds start_time.elapsed() gives
ElapsedMillis == {0, 120}

\* an operation other than test_connection: `?` on the send, the status
\* test, `?` on response.json() and the test that "data" is an object
\* (delete_token reads no body)
request(op, response) ==
    IF ~response.sent THEN Err("error sending request", None)
    ELSE IF ~is_success(response.status)
    THEN Err(failed_to(op), SomeInt(response.status))
    ELSE IF op = "delete_token" THEN Ok("()")
    ELSE IF response.body = "not_json" THEN Err("error decoding response body", None)
    ELSE IF response.body = "data_other" THEN Err("Invalid response format", None)
    ELSE Ok(op)

\* ConnectionTestResult
ConnectionTestResult(success, response_time, message, status_code) ==
    [success |-> success, response_time |-> response_time, message |-> message,
     status_code |-> status_code]

\* test_connection with `?` on the send
test_connection_propagates(response, elapsed) ==
    IF ~response.sent THEN Err("error sending request", None)
    ELSE Ok(ConnectionTestResult(is_success(response.status), SomeInt(elapsed),
                                 "Connection successful", SomeInt(response.status)))

\* test_connection: match on the send, then on the status
test_connection(response, elapsed) ==
    IF ~response.sent
    THEN Ok(ConnectionTestResult(FALSE, None, "Connection failed: error sending request",
                                 None))
    ELSE IF is_success(response.status)
    THEN Ok(ConnectionTestResult(TRUE, SomeInt(elapsed), "Connection successful",
                                 SomeInt(response.status)))
    ELSE Ok(ConnectionTestResult(FALSE, SomeInt(elapsed), "HTTP status",
                                 SomeInt(response.status)))

\* what an adapter call records: the answer and the result
Called(response, result) ==
    [kind |-> "Called", str |-> "", response |-> response, result |-> result]

Request(op, response) ==
    LET result == request(op, response) IN
    /\ last' = Returned(op, result.kind = "Ok", NoConfig, Called(response, result))
    /\ UNCHANGED <<clock, provVars, storeVars, regVars, asyncVars>>

TestConnection(response, elapsed) ==
    LET result == test_connection(response, elapsed) IN
    /\ last' = Returned("test_connection", result.kind = "Ok", NoConfig,
                        Called(response, result))
    /\ UNCHANGED <<clock, provVars, storeVars, regVars, asyncVars>>

AdapterNext ==
    \/ \E op \in RequestOperations, response \in Responses : Request(op, response)
    \/ \E response \in Responses, elapsed \in ElapsedMillis :
          TestConnection(response, elapsed)

SpecAdapter == StoreInit /\ [][AdapterNext]_vars

(***************************************************************************)
(* relay_stations.rs: NewApiAdapter, the token operations field by field.  *)
(* A JSON object is a function from its keys to their values.              *)
(***************************************************************************)
\* serde_json::Value::Null
Null == [kind |-> "Null", str |-> ""]

\* serde_json::Value::Number of an i64
Integer(n) == [kind |-> "Integer", str |-> "", int |-> n]

\* serde_json::Value::Object and serde_json::Value::Array
Object(fields) == [kind |-> "Object", str |-> "", fields |-> fields]
Array(items) == [kind |-> "Array", str |-> "", items |-> items]

\* a body response.json() fails on
NotJson == [kind |-> "NotJson", str |-> ""]

\* Map::get: the value of the key, None when the object has no such key
get(obj, key) == IF key \in DOMAIN obj THEN obj[key] ELSE None

\* Value::as_i64: Some for an integer number, None for any other value
as_i64(v) == IF v.kind = "Integer" THEN SomeInt(v.int) ELSE None

\* token.as_object().unwrap_or(&empty_map)
as_object_or_empty(v) == IF v.kind = "Object" THEN v.fields ELSE << >>

\* expires_at read without the filter
filter_nothing(t) == t

\* .filter(|&t| t != -1)
filter_not_sentinel(t) == IF t = SomeInt(-1) THEN None ELSE t

\* the RelayStationToken the three operations build from a token object;
\* they differ in what id and created_at fall back to (metadata, which
\* carries the raw object, is left out)
relay_station_token(station_id, token_obj, id_default, created_default) ==
    [id |-> LET id == as_i64(get(token_obj, "id")) IN
            IF is_some(id) THEN ToString(id.int) ELSE id_default,
     station_id |-> station_id,
     name |-> text_or_empty(get(token_obj, "name")),
     token |-> text_or_empty(get(token_obj, "key")),
     user_id |-> LET id == as_i64(get(token_obj, "user_id")) IN
                 IF is_some(id) THEN Str(ToString(id.int)) ELSE None,
     enabled |-> as_i64(get(token_obj, "status")) = SomeInt(1),
     expires_at |-> filter_not_sentinel(as_i64(get(token_obj, "expired_time"))),
     created_at |-> LET t == as_i64(get(token_obj, "created_time")) IN
                    IF is_some(t) THEN t.int ELSE created_default]

\* `?` on the send, the status test and `?` on response.json(), common to
\* the three operations: the error, or None when the body is to be read
answer_error(op, answer) ==
    IF ~answer.sent THEN Err("error sending request", None)
    ELSE IF ~is_success(answer.status) THEN Err(failed_to(op), SomeInt(answer.status))
    ELSE IF answer.data = NotJson THEN Err("error decoding response body", None)
    ELSE None

\* NewApiAdapter::list_tokens
NewApiAdapter_list_tokens(station_id, answer) ==
    IF is_some(answer_error("list_tokens", answer)) THEN answer_error("list_tokens", answer)
    ELSE IF answer.data.kind # "Object" THEN Err("Invalid response format", None)
    ELSE LET items == get(answer.data.fields, "items")
             toks == IF items.kind = "Array" THEN items.items ELSE << >>
         IN  Ok(List([i \in DOMAIN toks |->
                        relay_station_token(station_id, as_object_or_empty(toks[i]), "", 0)]))

\* NewApiAdapter::create_token
NewApiAdapter_create_token(station_id, answer, now) ==
    IF is_some(answer_error("create_token", answer)) THEN answer_error("create_token", answer)
    ELSE IF answer.data.kind # "Object" THEN Err("Invalid response format", None)
    ELSE Ok(relay_station_token(station_id, answer.data.fields, "", now))

\* NewApiAdapter::update_token
NewApiAdapter_update_token(station_id, token_id, answer) ==
    IF is_some(answer_error("update_token", answer)) THEN answer_error("update_token", answer)
    ELSE IF answer.data.kind # "Object" THEN Err("Invalid response format", None)
    ELSE Ok(relay_station_token(station_id, answer.data.fields, token_id, 0))

\* the optional fields of a token request
TokenFields ==
    {"name", "remain_quota", "expired_time", "unlimited_quota", "model_limits_enabled",
     "model_limits", "group", "allow_ips"}

\* the serde_json::Value of a present field: Number(n.into()), String(s), Bool(b)
json(v) == IF v.kind = "Int" THEN Integer(v.int) ELSE v

\* Option::unwrap_or
unwrap_or(v, default) == IF is_some(v) THEN v ELSE default

\* what create_token sends for an absent field
create_default(field) ==
    CASE field = "remain_quota" -> SomeInt(500000)
      [] field = "expired_time" -> SomeInt(-1)
      [] field = "unlimited_quota" -> Bool(TRUE)
      [] field = "model_limits_enabled" -> Bool(FALSE)
      [] field = "model_limits" -> Str("")
      [] field = "group" -> Str("Claude Code")
      [] field = "allow_ips" -> Str("")
      [] OTHER -> None

\* the request body of create_token: every field, an absent one as its default
create_body(token_data) ==
    [k \in TokenFields |-> json(unwrap_or(token_data[k], create_default(k)))]

\* the request body serialized from the whole request: an absent field as null
update_body_sends_null(token_data) ==
    [k \in {"id"} \cup TokenFields |->
        IF k = "id" THEN Integer(token_data.id)
        ELSE IF is_some(token_data[k]) THEN json(token_data[k]) ELSE Null]

\* the request body of update_token: id, then one insert for each present field
update_body(token_data) ==
    [k \in {"id"} \cup {f \in TokenFields : is_some(token_data[f])} |->
        IF k = "id" THEN Integer(token_data.id) ELSE json(token_data[k])]

\* the CreateTokenRequests handed to create_token
CreateTokenRequests ==
    [name : {Str("tok")}, remain_quota : {None, SomeInt(100)},
     expired_time : {None, SomeInt(2000)}, unlimited_quota : {None},
     model_limits_enabled : {None}, model_limits : {None}, group : {None},
     allow_ips : {None}]

\* the UpdateTokenRequests handed to update_token
UpdateTokenRequests ==
    [id : {7}, name : {None, Str("n")}, remain_quota : {None, SomeInt(100)},
     expired_time : {None, SomeInt(-1), SomeInt(2000)},
     unlimited_quota : {None, Bool(FALSE)}, model_limits_enabled : {None, Bool(TRUE)},
     model_limits : {None, Str("")}, group : {None, Str("g")},
     allow_ips : {None, Str("")}]

\* what the remote may put under "expired_time"
ExpiredTimes == {Null, Integer(-1), Integer(0), Integer(2000), Num("1.5"), Str("2000")}

\* the token objects of the remote: with every expired_time and with none
TokenObjects ==
    { Object([k \in {"id", "name", "key", "status", "expired_time"} |->
                CASE k = "id" -> Integer(7) [] k = "name" -> Str("tok")
                  [] k = "key" -> Str("sk") [] k = "status" -> Integer(1)
                  [] k = "expired_time" -> e]) : e \in ExpiredTimes }
    \cup { Object([k \in {"id", "name", "key", "status"} |->
                     CASE k = "id" -> Integer(7) [] k = "name" -> Str("tok")
                       [] k = "key" -> Str("sk") [] k = "status" -> Integer(1)]) }

\* the "data" of an answer to list_tokens: up to two items, an item being a
\* token object or no object; no "items"; no object
TokenPages ==
    { Object([k \in {"items"} |-> Array(items)]) :
        items \in UNION { [1..n -> TokenObjects \cup {Null}] : n \in 0..2 } }
    \cup {Object(<< >>), Null}

\* what .send().await and response.json() return for the given "data"
TokenAnswers(datas) ==
    {[sent |-> FALSE, status |-> 0, data |-> Null]}
    \cup [sent : {TRUE}, status : {200, 500}, data : datas \cup {NotJson}]

\* what a token operation records: the request, the body sent, the answer
\* and the result
Sent(token_data, body, answer, result) ==
    [kind |-> "Sent", str |-> "", request |-> token_data, body |-> body,
     answer |-> answer, result |-> result]

AdapterListTokens(answer) ==
    LET result == NewApiAdapter_list_tokens(AllStationIds[1], answer) IN
    /\ last' = Returned("adapter_list_tokens", result.kind = "Ok", NoConfig,
                        Sent(None, None, answer, result))
    /\ UNCHANGED <<clock, provVars, storeVars, regVars, asyncVars>>

AdapterCreateToken(token_data, answer) ==
    LET result == NewApiAdapter_create_token(AllStationIds[1], answer, clock) IN
    /\ last' = Returned("adapter_create_token", result.kind = "Ok", NoConfig,
                        Sent(token_data, create_body(token_data), answer, result))
    /\ UNCHANGED <<clock, provVars, storeVars, regVars, asyncVars>>

AdapterUpdateToken(token_id, token_data, answer) ==
    LET result == NewApiAdapter_update_token(AllStationIds[1], token_id, answer) IN
    /\ last' = Returned("adapter_update_token", result.kind = "Ok", NoConfig,
                        Sent(token_data, update_body(token_data), answer, result))
    /\ UNCHANGED <<clock, provVars, storeVars, regVars, asyncVars>>

\* the request update_token is followed with while the answers vary
PlainUpdate == CHOOSE r \in UpdateTokenRequests : \A f \in TokenFields : r[f] = None

RemoteTokenNext ==
    \/ \E answer \in TokenAnswers(TokenPages) : AdapterListTokens(answer)
    \/ \E token_data \in CreateTokenRequests, answer \in TokenAnswers(TokenObjects \cup {Null}) :
          AdapterCreateToken(token_data, answer)
    \/ \E answer \in TokenAnswers(TokenObjects \cup {Null}) :
          AdapterUpdateToken("9", PlainUpdate, answer)

SpecRemoteTokens == StoreInit /\ [][RemoteTokenNext]_vars

\* the answers update_token is followed with while the requests vary: a
\* token object and a refusal
UpdateAnswers ==
    { a \in TokenAnswers(TokenObjects) :
        \/ ~a.sent
        \/ /\ a.status = 200
           /\ a.data.kind = "Object"
           /\ "expired_time" \notin DOMAIN a.data.fields }

UpdateBodyNext ==
    \E token_data \in UpdateTokenRequests, answer \in UpdateAnswers :
       AdapterUpdateToken("9", token_data, answer)

SpecUpdateBody == StoreInit /\ [][UpdateBodyNext]_vars

(***************************************************************************)
(* The stations over time: add_relay_station stamps a new station with the *)
(* clock's second, update_station stamps updated_at with it.               *)
(***************************************************************************)
\* the ids of the stations followed over time: two are enough to tell the
\* update of one station from a change of the other
StationPair == {AllStationIds[1], AllStationIds[2]}

\* the stations add_relay_station builds
StampedStations ==
    {s \in StationInputs : s.adapter_config = None /\ s.id \in StationPair}

\* add_station with a station whose created_at and updated_at are
\* Utc::now().timestamp(), as add_relay_station builds it
AddStationNow(station) ==
    /\ station.created_at = clock
    /\ AddStation(station)

\* the tokens stored while the stations are updated
StationTokenInputs ==
    {t \in TokenInputs : t.id = AllTokenIds[1] /\ t.station_id = AllStationIds[1]}

StationNext ==
    \/ \E station \in StampedStations : AddStationNow(station)
    \/ \E id \in StationPair, updates \in StationUpdates : UpdateStation(id, updates)
    \/ \E id \in StationPair : DeleteStation(id)
    \/ \E token \in StationTokenInputs : AddToken(token)
    \/ Tick

SpecStation == StoreInit /\ [][StationNext]_vars

(***************************************************************************)
(* Updates with several keys: one station and one token, and maps that mix *)
(* recognized and unrecognized keys.                                       *)
(***************************************************************************)
\* an updates map of the given keys
UpdatesOf(keys) ==
    [k \in keys |->
        CASE k = "name" -> Str("X") [] k = "description" -> Str("D")
          [] k = "token" -> Str("T") [] k = "user_id" -> Str("u9")
          [] k = "enabled" -> Bool(FALSE) [] OTHER -> Str("red")]

\* the updates maps handed to update_station
MixedStationUpdates ==
    { UpdatesOf({"name", "description", "color"}), UpdatesOf({"name", "enabled"}),
      UpdatesOf({"description", "user_id"}), UpdatesOf({"color"}),
      [k \in {"name"} |-> Num("1")] }

\* the updates maps handed to update_token
MixedTokenUpdates ==
    { UpdatesOf({"name", "token", "station_id"}), UpdatesOf({"user_id", "enabled"}),
      [k \in {"token"} |-> Num("1")] }

MixedNext ==
    \/ \E station \in StampedStations : station.id = AllStationIds[1] /\ AddStationNow(station)
    \/ \E token \in StationTokenInputs : AddToken(token)
    \/ \E updates \in MixedStationUpdates : UpdateStation(AllStationIds[1], updates)
    \/ \E updates \in MixedTokenUpdates : UpdateToken(AllTokenIds[1], updates)
    \/ Tick

SpecMixed == StoreInit /\ [][MixedNext]_vars

(***************************************************************************)
(* Reads of a store whose optional columns hold any text: rows written by  *)
(* another version of the program or by hand.                              *)
(***************************************************************************)
\* texts that serde_json::from_str does not turn into a map
Malformed == {"{oops"}

\* what an adapter_config or metadata column may hold
OptionalTexts ==
    {None} \cup {Str(to_string(Map(r))) : r \in Regions} \cup {Str(t) : t \in Malformed}

\* list_stations that skips the rows whose adapter_config does not parse
list_stations_drops_unparsable(rows) ==
    { [i \in DOMAIN q |-> row_station(q[i])] :
        q \in order_by_created_at_desc(
                 {r \in rows : ~is_some(r.adapter_config)
                                  \/ is_some(from_str(r.adapter_config.str))}) }

\* list_stations: SELECT * FROM relay_stations ORDER BY created_at DESC
list_stations(rows) ==
    { [i \in DOMAIN q |-> row_station(q[i])] : q \in order_by_created_at_desc(rows) }

ListStations ==
    /\ \E items \in list_stations(stations) :
          last' = Returned("list_stations", TRUE, NoConfig, List(items))
    /\ UNCHANGED <<clock, provVars, storeVars, regVars, asyncVars>>

\* the station tables over the given stations, one row an id at most, with
\* any text in adapter_config
StoredStations(inputs) ==
    { { [station_row(f[i]) EXCEPT !.adapter_config = c[i]] : i \in S } :
        S \in SUBSET StationIds,
        f \in { g \in [StationIds -> inputs] : \A i \in StationIds : g[i].id = i },
        c \in [StationIds -> OptionalTexts] }

\* the token tables of the first station, with any text in metadata
StoredTokens ==
    { { [token_row(f[i]) EXCEPT !.metadata = c[i]] : i \in S } :
        S \in SUBSET TokenIds,
        f \in { g \in [TokenIds -> TokenInputs] :
                  \A i \in TokenIds : g[i].id = i /\ g[i].station_id = AllStationIds[1] },
        c \in [TokenIds -> OptionalTexts] }

ReadInit ==
    /\ settings = MissingFile
    /\ providers = << >>
    /\ stations \in StoredStations({s \in StoreStationInputs : s.adapter_config = None})
    /\ tokens \in StoredTokens
    /\ \A t \in tokens : has_id(stations, t.station_id)
    /\ running = {}
    /\ killCalls = {}
    /\ forceCalls = {}
    /\ last = Returned("init", TRUE, NoConfig, None)
    /\ ConcIdle
    /\ FacadeIdle
    /\ clock = 1

ReadNext ==
    \/ ListStations
    \/ \E id \in StationIds : GetStation(id)
    \/ \E id \in StationIds : ListTokens(id)

SpecRead == ReadInit /\ [][ReadNext]_vars

(***************************************************************************)
(* Listing a store whose stations were created at any of the seconds.      *)
(***************************************************************************)
ListInit ==
    /\ settings = MissingFile
    /\ providers = << >>
    /\ stations \in StoredStations({s \in StationInputs : s.adapter_config = None})
    /\ tokens = {}
    /\ running = {}
    /\ killCalls = {}
    /\ forceCalls = {}
    /\ last = Returned("init", TRUE, NoConfig, None)
    /\ ConcIdle
    /\ FacadeIdle
    /\ clock = 1

ListNext ==
    \/ ListStations
    \/ \E id \in StationIds : DeleteStation(id)

SpecList == ListInit /\ [][ListNext]_vars

(***************************************************************************)
(* Concurrent switch and clear: the commands are async fns the runtime     *)
(* runs in parallel, and each update_settings_env reads the file, changes  *)
(* the document in memory and writes the file, with no lock.               *)
(***************************************************************************)
\* the configs the concurrent callers switch to
ConcSwitchInputs ==
    { ProviderConfig("p1", CanonicalUrl, Str("tok"), None, Str("m")),
      ProviderConfig("p2", RelayUrl, None, Str("key"), None) }

\* the documents the settings file may hold before the concurrent calls
ConcInitSettings ==
    { MissingFile,
      ClaudeSettings(TRUE,
          [k \in EnvKeys |-> IF k = ANTHROPIC_MODEL THEN Str("m0")
                             ELSE IF k = "FOO" THEN Str("bar") ELSE None],
          [k \in TopKeys |-> Str("dark")]) }

\* the update_settings_env calls of a call, in order
call_updates(call) ==
    IF call.op = "switch" THEN switch_updates(call.config) ELSE vars_to_clear

Active(call) == call.status \in {"reading", "writing"}

\* switch_provider_config or clear_provider_config is invoked
ConcInvoke(c, op, config) ==
    /\ calls[c].status = "idle"
    /\ calls' = [calls EXCEPT ![c] =
                    [status |-> "reading", op |-> op, config |-> config, idx |-> 1,
                     buf |-> MissingFile]]
    /\ overlapped' = (overlapped \/ \E d \in Callers \ {c} : Active(calls[d]))
    /\ UNCHANGED <<clock, settings, providers, storeVars, regVars, last, lastWriter, facadeVars>>

\* update_settings_env: read_claude_settings()?
ConcRead(c, ok) ==
    /\ calls[c].status = "reading"
    /\ calls' = [calls EXCEPT ![c] =
                    IF ok THEN [@ EXCEPT !.status = "writing", !.buf = settings]
                    ELSE [@ EXCEPT !.status = "err"]]
    /\ UNCHANGED <<clock, settings, providers, storeVars, regVars, last, lastWriter, overlapped,
                   facadeVars>>

\* update_settings_env: the insert or remove, and write_claude_settings(&settings)?;
\* after the fourth call the command returns Ok
ConcWrite(c, ok) ==
    /\ calls[c].status = "writing"
    /\ LET u == call_updates(calls[c])[calls[c].idx] IN
       IF ok
       THEN /\ settings' = update_settings_env(calls[c].buf, u[1], u[2])
            /\ lastWriter' = c
            /\ calls' = [calls EXCEPT ![c] =
                            [@ EXCEPT !.status = IF calls[c].idx = 4 THEN "ok" ELSE "reading",
                                      !.idx = IF @ = 4 THEN 4 ELSE @ + 1,
                                      !.buf = MissingFile]]
       ELSE /\ calls' = [calls EXCEPT ![c] = [@ EXCEPT !.status = "err", !.buf = MissingFile]]
            /\ UNCHANGED <<settings, lastWriter>>
    /\ UNCHANGED <<clock, providers, storeVars, regVars, last, overlapped, facadeVars>>

ConcInit ==
    /\ settings \in ConcInitSettings
    /\ providers = << >>
    /\ stations = {}
    /\ tokens = {}
    /\ running = {}
    /\ killCalls = {}
    /\ forceCalls = {}
    /\ last = Returned("init", TRUE, NoConfig, None)
    /\ ConcIdle
    /\ FacadeIdle
    /\ clock = 1

ConcNext ==
    \/ \E c \in Callers, config \in ConcSwitchInputs : ConcInvoke(c, "switch", config)
    \/ \E c \in Callers : ConcInvoke(c, "clear", NoConfig)
    \/ \E c \in Callers, ok \in BOOLEAN : ConcRead(c, ok)
    \/ \E c \in Callers, ok \in BOOLEAN : ConcWrite(c, ok)

SpecConc == ConcInit /\ [][ConcNext]_vars

(***************************************************************************)
(* relay_stations.rs: the command handlers, run as concurrent tasks. Each  *)
(* locks the manager-state mutex, the manager method it calls locks the    *)
(* connection mutex, and the handlers of remote commands then await the    *)
(* adapter's network call.                                                 *)
(***************************************************************************)
StoreCommands ==
    {"list_relay_stations", "get_relay_station", "add_relay_station",
     "update_relay_station", "delete_relay_station"}

RemoteCommands ==
    {"get_station_info", "list_station_tokens", "add_station_token",
     "update_station_token", "delete_station_token", "get_token_user_info",
     "get_station_logs", "test_station_connection"}

\* handlers that return an error whenever the state holds no manager
not_initialized_always_err(cmd) == "Err(Relay station manager not initialized)"

\* what a handler returns when the state holds no manager
not_initialized(cmd) ==
    CASE cmd = "get_relay_station" -> "Ok(None)"
      [] cmd \in {"list_relay_stations", "list_station_tokens"} -> "Ok(empty)"
      [] OTHER -> "Err(Relay station manager not initialized)"

\* remote handlers that all return an error when get_station found no station
not_found_always_err(cmd) == "Err(Station not found)"

\* what a remote handler returns when get_station found no station
not_found(cmd) ==
    IF cmd = "list_station_tokens" THEN "Ok(empty)" ELSE "Err(Station not found)"

\* the station add_relay_station builds from its request
new_station(id) ==
    [id |-> id, name |-> "relay", description |-> None, api_url |-> RelayUrl,
     adapter |-> "Newapi", auth_method |-> "BearerToken", system_token |-> "sys",
     user_id |-> None, adapter_config |-> None, enabled |-> TRUE,
     created_at |-> 1, updated_at |-> 1]

\* the updates map update_relay_station is called with
FacadeUpdates == [k \in {"name"} |-> Str("relay")]

\* Uuid::new_v4(): an id no station has; once the model's ids are used up, any id
new_ids(rows) ==
    IF \E i \in StationIds : ~has_id(rows, i)
    THEN {i \in StationIds : ~has_id(rows, i)} ELSE StationIds

\* the guard kept alive to the end of the handler
unlock_state_guard_kept(lock, t) == lock

\* the end of the block that holds manager_lock: the guard is dropped
unlock_state(lock, t) == NoTask

\* a manager method that returns with the connection guard still alive
unlock_db_guard_kept(lock, t) == lock

\* the end of a manager method: `conn`, the guard of self.db, is dropped
unlock_db(lock, t) == NoTask

\* a guard still alive when the handler returns is dropped then
drop_guard(lock, t) == IF lock = t THEN NoTask ELSE lock

FacadeInvoke(t, cmd, id) ==
    /\ task[t].pc = "idle"
    /\ task' = [task EXCEPT ![t] = [IdleTask EXCEPT !.pc = "lock_state", !.cmd = cmd,
                                                    !.station_id = id]]
    /\ UNCHANGED <<clock, provVars, storeVars, regVars, last, concVars,
                   manager_is_some, stateLock, dbLock>>

\* state.lock()
LockState(t) ==
    /\ task[t].pc = "lock_state"
    /\ stateLock = NoTask
    /\ stateLock' = t
    /\ task' = [task EXCEPT ![t].pc = "check_manager"]
    /\ UNCHANGED <<clock, provVars, storeVars, regVars, last, concVars, manager_is_some, dbLock>>

\* if let Some(manager) = manager_lock.as_ref() { .. } else { return .. }
CheckManager(t) ==
    /\ task[t].pc = "check_manager"
    /\ IF manager_is_some
       THEN /\ task' = [task EXCEPT ![t].pc = "lock_db"]
            /\ UNCHANGED stateLock
       ELSE /\ task' = [task EXCEPT ![t].pc = "done",
                                    ![t].result = not_initialized(task[t].cmd)]
            /\ stateLock' = NoTask
    /\ UNCHANGED <<clock, provVars, storeVars, regVars, last, concVars, manager_is_some, dbLock>>

\* self.db.lock().unwrap() of the manager method
LockDb(t) ==
    /\ task[t].pc = "lock_db"
    /\ dbLock = NoTask
    /\ dbLock' = t
    /\ task' = [task EXCEPT ![t].pc = "query"]
    /\ UNCHANGED <<clock, provVars, storeVars, regVars, last, concVars, manager_is_some, stateLock>>

\* the manager method runs its statement and returns, dropping the connection guard
Query(t) ==
    /\ task[t].pc = "query"
    /\ dbLock' = unlock_db(dbLock, t)
    /\ CASE task[t].cmd = "add_relay_station" ->
              \E id \in new_ids(stations) :
                 /\ stations' = add_station(stations, new_station(id))
                 /\ task' = [task EXCEPT ![t].pc = "unlock_state",
                                         ![t].result = IF has_id(stations, id)
                                                       THEN "Err(Failed to add station)"
                                                       ELSE "Ok(added)"]
                 /\ UNCHANGED tokens
         [] task[t].cmd = "update_relay_station" ->
              /\ \E order \in iterations(FacadeUpdates) :
                    stations' = update_station(stations, task[t].station_id,
                                               FacadeUpdates, order, clock)
              /\ task' = [task EXCEPT ![t].pc = "unlock_state", ![t].result = "Ok(updated)"]
              /\ UNCHANGED tokens
         [] task[t].cmd = "list_relay_stations" ->
              /\ task' = [task EXCEPT ![t].pc = "unlock_state",
                                      ![t].result = IF stations = {} THEN "Ok(empty)"
                                                    ELSE "Ok(list)"]
              /\ UNCHANGED storeVars
         [] task[t].cmd = "delete_relay_station" ->
              /\ stations' = delete_station_rows(stations, task[t].station_id)
              /\ tokens' = IF foreign_keys
                           THEN on_delete_cascade(tokens, task[t].station_id) ELSE tokens
              /\ task' = [task EXCEPT ![t].pc = "unlock_state", ![t].result = "Ok(deleted)"]
         [] OTHER ->
              /\ task' = [task EXCEPT ![t].pc = "unlock_state",
                                      ![t].station = get_station(stations, task[t].station_id)]
              /\ UNCHANGED storeVars
    /\ UNCHANGED <<clock, provVars, regVars, last, concVars, manager_is_some, stateLock>>

\* manager_lock goes out of scope: at the end of the handler for a store
\* command, at the end of the block that reads the station for a remote one
UnlockState(t) ==
    /\ task[t].pc = "unlock_state"
    /\ IF task[t].cmd \in StoreCommands
       THEN /\ stateLock' = NoTask
            /\ task' = [task EXCEPT ![t].pc = "done",
                           ![t].result = IF task[t].cmd # "get_relay_station" THEN @
                                         ELSE IF is_some(task[t].station) THEN "Ok(Some)"
                                         ELSE "Ok(None)"]
       ELSE /\ stateLock' = unlock_state(stateLock, t)
            /\ task' = [task EXCEPT ![t].pc = IF is_some(task[t].station)
                                              THEN "call_adapter" ELSE "done",
                                    ![t].result = IF is_some(task[t].station)
                                                  THEN @ ELSE not_found(task[t].cmd)]
    /\ UNCHANGED <<clock, provVars, storeVars, regVars, last, concVars, manager_is_some, dbLock>>

\* create_adapter(&station.adapter) and the adapter's request is sent
StartCall(t) ==
    /\ task[t].pc = "call_adapter"
    /\ task' = [task EXCEPT ![t].pc = "in_flight"]
    /\ UNCHANGED <<clock, provVars, storeVars, regVars, last, concVars,
                   manager_is_some, stateLock, dbLock>>

\* .await returns with the adapter's result and the handler returns
Response(t, ok) ==
    /\ task[t].pc = "in_flight"
    /\ task' = [task EXCEPT ![t].pc = "done",
                            ![t].result = IF ok THEN "Ok(remote)" ELSE "Err(remote)"]
    /\ stateLock' = drop_guard(stateLock, t)
    /\ UNCHANGED <<clock, provVars, storeVars, regVars, last, concVars, manager_is_some, dbLock>>

\* the caller takes the result
Return(t) ==
    /\ task[t].pc = "done"
    /\ task' = [task EXCEPT ![t] = IdleTask]
    /\ UNCHANGED <<clock, provVars, storeVars, regVars, last, concVars,
                   manager_is_some, stateLock, dbLock>>

FacadeInit ==
    /\ settings = MissingFile
    /\ providers = << >>
    /\ stations = {}
    /\ tokens = {}
    /\ running = {}
    /\ killCalls = {}
    /\ forceCalls = {}
    /\ last = Returned("init", TRUE, NoConfig, None)
    /\ ConcIdle
    /\ manager_is_some \in BOOLEAN
    /\ stateLock = NoTask
    /\ dbLock = NoTask
    /\ task = [t \in Tasks |-> IdleTask]
    /\ clock = 1

FacadeNext ==
    \/ \E t \in Tasks, cmd \in StoreCommands \cup RemoteCommands, id \in StationIds :
          FacadeInvoke(t, cmd, id)
    \/ \E t \in Tasks : LockState(t)
    \/ \E t \in Tasks : CheckManager(t)
    \/ \E t \in Tasks : LockDb(t)
    \/ \E t \in Tasks : Query(t)
    \/ \E t \in Tasks : UnlockState(t)
    \/ \E t \in Tasks : StartCall(t)
    \/ \E t \in Tasks, ok \in BOOLEAN : Response(t, ok)
    \/ \E t \in Tasks : Return(t)

SpecFacade == FacadeInit /\ [][FacadeNext]_vars

(***************************************************************************)
(* Commands that run at once, each invoked once: every task starts before  *)
(* its state.lock() and is not invoked again when it has returned. A       *)
(* thread that can step does step, and a thread waiting for a mutex that   *)
(* stays free gets it; the answer of the network may never come.           *)
(***************************************************************************)
RunningInit ==
    /\ settings = MissingFile
    /\ providers = << >>
    /\ stations = {}
    /\ tokens = {}
    /\ running = {}
    /\ killCalls = {}
    /\ forceCalls = {}
    /\ last = Returned("init", TRUE, NoConfig, None)
    /\ ConcIdle
    /\ manager_is_some \in BOOLEAN
    /\ stateLock = NoTask
    /\ dbLock = NoTask
    /\ task \in [Tasks -> { [IdleTask EXCEPT !.pc = "lock_state", !.cmd = cmd,
                                              !.station_id = id] :
                               cmd \in StoreCommands \cup RemoteCommands,
                               id \in StationIds }]
    /\ clock = 1

RunningNext ==
    \/ \E t \in Tasks : LockState(t)
    \/ \E t \in Tasks : CheckManager(t)
    \/ \E t \in Tasks : LockDb(t)
    \/ \E t \in Tasks : Query(t)
    \/ \E t \in Tasks : UnlockState(t)
    \/ \E t \in Tasks : StartCall(t)
    \/ \E t \in Tasks, ok \in BOOLEAN : Response(t, ok)
    \/ \E t \in Tasks : Return(t)

RunningFairness ==
    \A t \in Tasks :
       /\ WF_vars(LockState(t))
       /\ WF_vars(CheckManager(t))
       /\ WF_vars(LockDb(t))
       /\ WF_vars(Query(t))
       /\ WF_vars(UnlockState(t))
       /\ WF_vars(StartCall(t))
       /\ WF_vars(Return(t))

SpecRunning == RunningInit /\ [][RunningNext]_vars /\ RunningFairness

(***************************************************************************)
(* Properties of the provider coordinator.                                 *)
(***************************************************************************)
\* the document holds a base URL (a string under ANTHROPIC_BASE_URL)
BaseUrlPresent(doc) == doc.env[ANTHROPIC_BASE_URL].kind = "String"

\* the document holds a non-empty ANTHROPIC_AUTH_TOKEN or ANTHROPIC_API_KEY
AuthMaterialPresent(doc) ==
    \E k \in {ANTHROPIC_AUTH_TOKEN, ANTHROPIC_API_KEY} :
        doc.env[k].kind = "String" /\ doc.env[k].str # ""

\* the four well-known keys of the document are those of the config
ReflectsConfig(doc, config) ==
    /\ doc.env[ANTHROPIC_BASE_URL] = Str(config.base_url)
    /\ doc.env[ANTHROPIC_AUTH_TOKEN] = config.auth_token
    /\ doc.env[ANTHROPIC_API_KEY] = config.api_key
    /\ doc.env[ANTHROPIC_MODEL] = config.model

\* C1: a switch whose settings write fails at any of the four key updates
\* leaves the document as it was before the call, and a switch that succeeds
\* leaves all four keys reflecting the config: no partly updated document is
\* left by a step of switch.
C1_SwitchAtomic ==
    [][last'.op = "switch" =>
          IF last'.ok THEN ReflectsConfig(settings', last'.config)
          ELSE settings' = settings]_vars

\* C4: every switch or clear attempts a graceful termination (kill_process by
\* run id) of each agent session that was running when it was invoked.
C4_SwitchTerminatesSessions ==
    [][last'.op \in {"switch", "clear"} => running \subseteq killCalls']_vars

\* C5: a successful switch leaves every env key other than the four
\* well-known ones, and every top-level key other than env, with the value it
\* had before the call.
C5_SettingsPreserved ==
    [][(last'.op = "switch" /\ last'.ok) =>
          /\ \A k \in EnvKeys \ WellKnownKeys : settings'.env[k] = settings.env[k]
          /\ settings'.other = settings.other]_vars

\* C5 witness: a switch succeeded on a document holding "FOO": "bar" and a
\* top-level key
C5_Witness ==
    /\ last.op = "switch" /\ last.ok
    /\ settings.env["FOO"] = Str("bar")
    /\ settings.other["theme"] = Str("dark")

\* C7: is_applied() is true exactly when a base URL is present that differs
\* from the canonical endpoint, or non-empty auth material is present (so it
\* is true for auth material without a base URL).
C7_IsAppliedIff ==
    last.op = "is_applied" =>
        (last.value = Bool(TRUE)
            <=> \/ BaseUrlPresent(settings)
                   /\ settings.env[ANTHROPIC_BASE_URL].str # CanonicalUrl
                \/ AuthMaterialPresent(settings))

\* C10: after a successful switch the base URL key equals config.base_url and
\* each of the auth token, API key and model keys equals the config's value
\* when the config has one and is absent from the document when it has none.
C10_SwitchWritesConfig ==
    (last.op = "switch" /\ last.ok) =>
        /\ settings.env[ANTHROPIC_BASE_URL] = Str(last.config.base_url)
        /\ \A f \in {"auth_token", "api_key", "model"} :
              LET k == CASE f = "auth_token" -> ANTHROPIC_AUTH_TOKEN
                         [] f = "api_key" -> ANTHROPIC_API_KEY
                         [] f = "model" -> ANTHROPIC_MODEL
              IN IF last.config[f].kind = "String"
                 THEN settings.env[k] = Str(last.config[f].str)
                 ELSE settings.env[k].kind = "None"

\* C10 witness: a switch succeeded with a config that has a model and an API
\* key and no auth token
C10_Witness ==
    /\ last.op = "switch" /\ last.ok
    /\ last.config.auth_token = None
    /\ last.config.api_key = Str("key")
    /\ last.config.model = Str("m")
    /\ settings.env[ANTHROPIC_AUTH_TOKEN] = None

\* none of the four well-known keys is in the document
NoOverride(doc) == \A k \in WellKnownKeys : doc.env[k] = None

\* C11: clear() is idempotent: every successful clear leaves none of the four
\* well-known keys in the document, and a successful clear that directly
\* follows a successful clear leaves the document exactly as the first left it.
C11_ClearIdempotent ==
    [][(last'.op = "clear" /\ last'.ok) =>
          /\ NoOverride(settings')
          /\ (last.op = "clear" /\ last.ok) => settings' = settings]_vars

\* C11 witness: a second successful clear in a row returned, on a document
\* that keeps its unrelated key
C11_Witness ==
    /\ last.op = "clear" /\ last.ok /\ last.value = Bool(TRUE)
    /\ settings.env["FOO"] = Str("bar")
    /\ NoOverride(settings)

\* C18: no outcome of process termination reaches the caller or the
\* credential rewrite: terminate_claude_processes returns normally and leaves
\* the settings document and the presets alone whether the enumeration of
\* sessions fails, a kill_process fails or returns false, or a
\* kill_process_by_pid fails; and the result and the document a switch leaves
\* are those its settings writes give, whatever the registry holds.
C18_TerminationNotEscalated ==
    [][/\ last'.op = "terminate" =>
              last'.ok /\ settings' = settings /\ providers' = providers
       /\ last'.op = "switch" =>
              /\ last'.ok = (last'.value.at = 0)
              /\ settings' = run_updates(settings, switch_updates(last'.config),
                                         last'.value.at)]_vars

\* the last command was a switch that returned Ok while a session that
\* survived a failed termination is still running
SwitchedBesideSurvivor ==
    /\ last.op = "switch" /\ last.ok
    /\ ReflectsConfig(settings, last.config)
    /\ running # {} /\ running \subseteq killCalls /\ running \subseteq forceCalls

\* C18 witness: a switch returned Ok and wrote its config after a run of the
\* routine in which kill_process and kill_process_by_pid both failed
C18_Witness == SwitchedBesideSurvivor

(***************************************************************************)
(* Properties of detection.                                                *)
(***************************************************************************)
\* the ids of the stored stations whose api_url is url
StationsAt(url) == {s.id : s \in {r \in stations : r.api_url = url}}

C9_DetectAbsent ==
    (last.op = "detect" /\ (~BaseUrlPresent(settings) \/ ~AuthMaterialPresent(settings)))
        => last.value = None

\* C9 witness: detection ran on a document with a base URL and only an empty
\* auth token, while a preset and a station with that URL are stored
C9_Witness ==
    /\ last.op = "detect" /\ last.value = None
    /\ settings.env[ANTHROPIC_BASE_URL] = Str(RelayUrl)
    /\ settings.env[ANTHROPIC_AUTH_TOKEN] = Str("")
    /\ settings.env[ANTHROPIC_API_KEY] = None
    /\ \E i \in 1..Len(providers) : providers[i].base_url = RelayUrl
    /\ StationsAt(RelayUrl) # {}

(***************************************************************************)
(* Properties of the store.                                                *)
(***************************************************************************)
\* C2: once delete_station(id) has returned, after any run of add_station,
\* add_token and delete_token, no stored token has station_id = id and
\* list_tokens(id) returns the empty list.
C2_CascadeDelete ==
    last.op = "delete_station" =>
        /\ \A t \in tokens : t.station_id # last.value.str
        /\ list_tokens(tokens, last.value.str) = {<< >>}

\* C2 witness: a station that owned a token was deleted while another
\* station keeps a token
C2_Witness ==
    /\ last.op = "delete_station"
    /\ last.value.owned = 1
    /\ tokens # {}

\* the fields of a RelayStation other than its timestamps
StationFields ==
    {"id", "name", "description", "api_url", "adapter", "auth_method", "system_token",
     "user_id", "adapter_config", "enabled"}

\* C14: round trip: add_station(s) with an id that was not stored, followed
\* by get_station(s.id), returns a record equal to s in each of its ten
\* fields other than the timestamps, which are equal or later.
C14_AddGetRoundTrip ==
    [][(/\ last.op = "add_station" /\ last.ok
        /\ last'.op = "get_station" /\ last'.value.str = last.value.str) =>
          /\ last'.value.kind = "Station"
          /\ \A f \in StationFields : last'.value.station[f] = last.value.station[f]
          /\ last'.value.station.created_at >= last.value.station.created_at
          /\ last'.value.station.updated_at >= last.value.station.updated_at]_vars

\* C14 witness: get_station returned a disabled station with the Custom
\* adapter, the ApiKey auth method, a description, a user id and an adapter
\* config
C14_Witness ==
    /\ last.op = "get_station" /\ last.value.kind = "Station"
    /\ last.value.station.adapter = "Custom"
    /\ last.value.station.auth_method = "ApiKey"
    /\ last.value.station.description = Str("d")
    /\ last.value.station.user_id = Str("u")
    /\ last.value.station.adapter_config = Map("eu")
    /\ ~last.value.station.enabled

\* the stored row of a station
RowOf(rows, id) == CHOOSE r \in rows : r.id = id

\* the last command was update_station on a station that was stored
UpdatedStored == last'.op = "update_station" /\ has_id(stations, last'.value.str)

\* C12: update_station(id, {"name": "X"}) on a stored station changes only
\* that station's name and updated_at: its other ten columns, every other
\* station and every token are as before.
C12_SparseUpdateFrame ==
    [][(UpdatedStored /\ last'.value.updates = [k \in {"name"} |-> Str("X")]) =>
          LET id == last'.value.str
              before == RowOf(stations, id)
              after == RowOf(stations', id)
          IN /\ has_id(stations', id)
             /\ after.name = "X"
             /\ \A c \in DOMAIN before \ {"name", "updated_at"} : after[c] = before[c]
             /\ {r \in stations' : r.id # id} = {r \in stations : r.id # id}
             /\ tokens' = tokens]_vars

\* C12 witness: a station was renamed at a later second than it was
\* created, while another station and a token are stored
C12_Witness ==
    /\ last.op = "update_station"
    /\ last.value.updates = [k \in {"name"} |-> Str("X")]
    /\ \E r \in stations :
          r.id = last.value.str /\ r.name = "X" /\ r.updated_at > r.created_at
    /\ \E r \in stations : r.id # last.value.str /\ r.name = "relay"
    /\ tokens # {}

\* C13 as claimed: every update_station on a stored station stamps its
\* updated_at with the time of the call, whatever the updates map, the empty
\* map and a map of unrecognized keys included; and keys that are not
\* recognized change no column.
C13_UpdateAlwaysBumps ==
    [][UpdatedStored =>
          LET id == last'.value.str
              before == RowOf(stations, id)
              after == RowOf(stations', id)
          IN /\ last'.ok
             /\ after.updated_at = clock
             /\ (DOMAIN last'.value.updates \cap StationColumns = {}) =>
                    \A c \in DOMAIN before \ {"updated_at"} : after[c] = before[c]]_vars

\* C15: no two stored stations share an id, an add_station with a stored id
\* fails and leaves the store as it was, no update changes a station's id or
\* created_at, and no update decreases a station's updated_at.
C15_IdUniqueTimestampsMonotone ==
    [][/\ \A r, q \in stations' : r.id = q.id => r = q
       /\ (last'.op = "add_station" /\ has_id(stations, last'.value.str)) =>
              ~last'.ok /\ stations' = stations
       /\ last'.op = "update_station" =>
              /\ {r.id : r \in stations'} = {r.id : r \in stations}
              /\ \A r \in stations : \A q \in stations' :
                    r.id = q.id => /\ q.created_at = r.created_at
                                   /\ q.updated_at >= r.updated_at]_vars

\* C15 witness: a station created at second 1 was updated at the latest
\* second while a second station is stored
C15_Witness ==
    /\ last.op = "update_station"
    /\ Cardinality(stations) = 2
    /\ \E r \in stations :
          r.id = last.value.str /\ r.created_at = 1 /\ r.updated_at = MaxTime

\* C16: referential invariant: in every state of the store, after any run
\* of add_station, add_token, update_token, delete_token and delete_station,
\* every stored token's station_id is the id of a stored station; add_token
\* for a station id that is not stored creates no token row.
C16_NoOrphanTokens ==
    /\ \A t \in tokens : has_id(stations, t.station_id)
    /\ (last.op = "add_token" /\ last.ok) => has_id(tokens, last.value.str)

\* C16 witness: add_token for a station that is not stored was refused (its
\* token id was free), while another station holds a token that update_token
\* has renamed
C16_Witness ==
    /\ last.op = "add_token" /\ ~last.ok
    /\ ~has_id(tokens, last.value.str)
    /\ Cardinality(stations) = 1
    /\ \E t \in tokens : t.name = "X"

(***************************************************************************)
(* Properties of concurrent switch and clear.                              *)
(***************************************************************************)
\* the four well-known keys a call leaves when it runs alone
Outcome(call) ==
    [k \in WellKnownKeys |->
        IF call.op = "clear" THEN None
        ELSE CASE k = ANTHROPIC_BASE_URL -> Str(call.config.base_url)
               [] k = ANTHROPIC_AUTH_TOKEN -> call.config.auth_token
               [] k = ANTHROPIC_API_KEY -> call.config.api_key
               [] k = ANTHROPIC_MODEL -> call.config.model]

BothReturnedOk == \A c \in Callers : calls[c].status = "ok"

LastWriterWins ==
    \A k \in WellKnownKeys : settings.env[k] = Outcome(calls[lastWriter])[k]

\* C6 as claimed: when two switch calls (or a switch and a clear) run with
\* their per-key read-modify-write steps interleaved in any order, once both
\* have returned the four well-known keys are those of the call that wrote
\* last, never a mixture.
C6_LastWriteWinsInterleaved == BothReturnedOk => LastWriterWins

\* C6 amended: when the two calls do not overlap (the second is invoked after
\* the first has returned), once both have returned Ok the four well-known
\* keys are those of the second call.
C6_LastWriteWinsSerialized == (BothReturnedOk /\ ~overlapped) => LastWriterWins

\* C6 witness: two calls with different outcomes ran one after the other and
\* both returned Ok
C6_Witness ==
    /\ BothReturnedOk /\ ~overlapped
    /\ Outcome(calls["a"]) # Outcome(calls["b"])
    /\ calls["a"].op = "switch" /\ calls["b"].op = "switch"

(***************************************************************************)
(* Properties of the adapter.                                              *)
(***************************************************************************)
\* the last command was an adapter operation whose request was answered
Answered == last.value.kind = "Called" /\ last.value.response.sent

\* the last command was an adapter operation answered with a non-2xx status
AnsweredNon2xx ==
    /\ Answered
    /\ ~(last.value.response.status >= 200 /\ last.value.response.status <= 299)

\* the result is an error that carries the status of the answer
ErrorWithStatus ==
    /\ ~last.ok /\ last.value.result.kind = "Err"
    /\ last.value.result.status = SomeInt(last.value.response.status)

\* C19: test_connection never returns an error: for every outcome of the
\* outbound call it returns a result object, and on a transport failure the
\* result has success = false, a non-empty message and no status_code and
\* no response_time.
C19_TestConnectionNeverErrors ==
    last.op = "test_connection" =>
        /\ last.ok /\ last.value.result.kind = "Ok"
        /\ ~last.value.response.sent =>
              LET r == last.value.result.value IN
              /\ ~r.success /\ r.message # ""
              /\ r.status_code = None /\ r.response_time = None

\* C19 witness: test_connection returned after a transport failure
C19_Witness ==
    /\ last.op = "test_connection" /\ last.value.response = TransportFailure
    /\ last.value.result.value.message = "Connection failed: error sending request"

\* C20 as claimed: for each of the eight adapter operations, test_connection
\* included, a non-2xx answer yields an error that carries the HTTP status,
\* never a success value.
C20_Non2xxIsError == AnsweredNon2xx => ErrorWithStatus

\* C20 amended: for each of the seven operations other than test_connection
\* a non-2xx answer yields an error that carries the HTTP status, never a
\* success value; test_connection returns a result object with
\* success = false and the status in status_code.
C20_Non2xxIsFailure ==
    AnsweredNon2xx =>
        IF last.op = "test_connection"
        THEN /\ last.value.result.kind = "Ok"
             /\ ~last.value.result.value.success
             /\ last.value.result.value.status_code = SomeInt(last.value.response.status)
        ELSE ErrorWithStatus

\* C20 witness: delete_token was answered 404 and returned the error with
\* that status
C20_Witness ==
    /\ last.op = "delete_token" /\ AnsweredNon2xx
    /\ last.value.response.status = 404
    /\ last.value.result = Err("Failed to delete token", SomeInt(404))

(***************************************************************************)
(* Properties of the facade.                                               *)
(***************************************************************************)
NotInitializedError == "Err(Relay station manager not initialized)"

\* the commands that write: add, update and delete of stations and tokens
WriteCommands ==
    {"add_relay_station", "update_relay_station", "delete_relay_station",
     "add_station_token", "update_station_token", "delete_station_token"}

\* a task's command has returned while the state held no manager
ReturnedUninitialized(t) == task[t].pc = "done" /\ ~manager_is_some

\* C17 as claimed: with no manager constructed, each of the six read
\* commands returns a benign empty or absent result, not an error, and each
\* of the six write commands returns an explicit error.
C17_ReadPathsBenign ==
    \A t \in Tasks : ReturnedUninitialized(t) =>
        /\ task[t].cmd \in {"list_relay_stations", "get_relay_station",
                             "list_station_tokens", "get_station_info",
                             "get_token_user_info", "get_station_logs"}
              => task[t].result \in {"Ok(empty)", "Ok(None)"}
        /\ task[t].cmd \in WriteCommands => task[t].result = NotInitializedError

\* C17 amended: with no manager constructed, list_relay_stations and
\* list_station_tokens return an empty list, get_relay_station returns an
\* absent result, and every other command (get_station_info,
\* get_token_user_info, get_station_logs, test_station_connection and the six
\* write commands) returns the explicit not-initialized error.
C17_NotInitializedPolicy ==
    \A t \in Tasks : ReturnedUninitialized(t) =>
        IF task[t].cmd \in {"list_relay_stations", "list_station_tokens"}
        THEN task[t].result = "Ok(empty)"
        ELSE IF task[t].cmd = "get_relay_station" THEN task[t].result = "Ok(None)"
        ELSE task[t].result = NotInitializedError

\* C17 witness: with no manager constructed, one task's list_station_tokens
\* has returned the empty list and the other's get_station_logs the error
C17_Witness ==
    /\ ~manager_is_some
    /\ \E t, u \in Tasks :
          /\ task[t].pc = "done" /\ task[t].cmd = "list_station_tokens"
          /\ task[t].result = "Ok(empty)"
          /\ task[u].pc = "done" /\ task[u].cmd = "get_station_logs"
          /\ task[u].result = NotInitializedError

\* C3: in every remote command of the facade the store's lock is held only
\* while the station is read into an owned value and is released before the
\* adapter's network call starts: no task whose network call is about to be
\* issued or is in flight holds the manager-state mutex or the connection
\* mutex.
C3_NoLockAcrossNetwork ==
    \A t \in Tasks :
        task[t].pc \in {"call_adapter", "in_flight"} =>
            /\ task[t].cmd \in RemoteCommands
            /\ stateLock # t
            /\ dbLock # t

\* C3 witness: while one task's network call is in flight, another task's
\* store command holds both locks
C3_Witness ==
    \E t, u \in Tasks :
        /\ task[t].pc = "in_flight"
        /\ task[u].cmd = "delete_relay_station"
        /\ stateLock = u /\ dbLock = u


(***************************************************************************)
(* Properties of SpecRead.                                                 *)
(***************************************************************************)
\* the column holds a text that is not valid JSON
IsMalformed(column) == is_some(column) /\ column.str \in Malformed

\* the items of the returned list that carry the id
ItemsOf(id) == {i \in DOMAIN last.value.items : last.value.items[i].id = id}

\* C21: a read never fails because of an optional column. list_stations,
\* get_station and list_tokens succeed, return every row they select exactly
\* once, and return a row whose adapter_config (metadata) text is not valid
\* JSON with that field absent.
C21_ReadsSurviveMalformedOptionals ==
    /\ last.op = "list_stations" =>
          /\ last.ok
          /\ Len(last.value.items) = Cardinality(stations)
          /\ \A r \in stations :
                /\ Cardinality(ItemsOf(r.id)) = 1
                /\ IsMalformed(r.adapter_config) =>
                      \A i \in ItemsOf(r.id) : last.value.items[i].adapter_config = None
    /\ last.op = "get_station" =>
          /\ last.ok
          /\ \A r \in stations :
                r.id = last.value.str =>
                   /\ last.value.kind = "Station"
                   /\ last.value.station.id = r.id
                   /\ IsMalformed(r.adapter_config) =>
                         last.value.station.adapter_config = None
    /\ last.op = "list_tokens" =>
          /\ last.ok
          /\ Len(last.value.items)
                = Cardinality({t \in tokens : t.station_id = last.value.str})
          /\ \A t \in tokens :
                t.station_id = last.value.str =>
                   /\ Cardinality(ItemsOf(t.id)) = 1
                   /\ IsMalformed(t.metadata) =>
                         \A i \in ItemsOf(t.id) : last.value.items[i].metadata = None

\* list_stations returned two stations, one of them stored with a malformed
\* adapter_config
C21_Witness ==
    /\ last.op = "list_stations"
    /\ Len(last.value.items) = 2
    /\ \E r \in stations : IsMalformed(r.adapter_config)
    /\ \E r \in stations : ~IsMalformed(r.adapter_config)

(***************************************************************************)
(* Properties of SpecList.                                                 *)
(***************************************************************************)
\* C24: list_stations returns every stored station exactly once, newest
\* created first: of two adjacent returned stations the earlier one has a
\* created_at greater than or equal to that of the later one.
C24_ListNewestFirst ==
    last.op = "list_stations" =>
       /\ Len(last.value.items) = Cardinality(stations)
       /\ \A r \in stations : Cardinality(ItemsOf(r.id)) = 1
       /\ \A i \in 1..(Len(last.value.items) - 1) :
             last.value.items[i].created_at >= last.value.items[i + 1].created_at

\* list_stations returned two stations created at different seconds
C24_Witness ==
    /\ last.op = "list_stations"
    /\ Len(last.value.items) = 2
    /\ last.value.items[1].created_at > last.value.items[2].created_at

(***************************************************************************)
(* Properties of SpecRemoteTokens.                                         *)
(***************************************************************************)
\* the tokens the last token operation returned, each with the remote object
\* it was built from
ReturnedTokens ==
    IF ~last.ok THEN {}
    ELSE IF last.op = "adapter_list_tokens"
    THEN LET toks == last.value.result.value.items
             arr == last.value.answer.data.fields.items.items
         IN  {<<as_object_or_empty(arr[i]), toks[i]>> : i \in DOMAIN toks}
    ELSE IF last.op \in {"adapter_create_token", "adapter_update_token"}
    THEN {<<last.value.answer.data.fields, last.value.result.value>>}
    ELSE {}

\* the remote expired_time is -1 or missing
SentinelOrMissing(obj) == get(obj, "expired_time") \in {None, Integer(-1)}

\* expires_at is the remote expired_time
EqualsRemote(expires_at, obj) ==
    /\ get(obj, "expired_time").kind = "Integer"
    /\ expires_at = SomeInt(get(obj, "expired_time").int)

\* C22 as stated: every token returned by the adapter's list_tokens,
\* create_token and update_token has expires_at absent when the remote
\* expired_time is -1 or missing, and equal to the remote value otherwise.
C22_ExpiresAtIsRemoteValue ==
    \A p \in ReturnedTokens :
       IF SentinelOrMissing(p[1]) THEN p[2].expires_at = None
       ELSE EqualsRemote(p[2].expires_at, p[1])

\* C22: the remote "no expiry" sentinel is never exposed. Every returned
\* token has expires_at absent when the remote expired_time is -1, missing
\* or no integer, and equal to the remote integer otherwise; no returned
\* token has expires_at = -1.
C22_SentinelNeverExposed ==
    \A p \in ReturnedTokens :
       /\ p[2].expires_at # SomeInt(-1)
       /\ IF SentinelOrMissing(p[1]) \/ get(p[1], "expired_time").kind # "Integer"
          THEN p[2].expires_at = None
          ELSE EqualsRemote(p[2].expires_at, p[1])

\* list_tokens returned two tokens, the remote expired_time of one being -1
\* and of the other a second
C22_Witness ==
    /\ last.op = "adapter_list_tokens"
    /\ \E p \in ReturnedTokens : get(p[1], "expired_time") = Integer(-1)
    /\ \E p \in ReturnedTokens : p[2].expires_at = SomeInt(2000)

\* C23: the body update_token sends has as keys exactly id and the fields
\* present in the UpdateTokenRequest, each with the request's value; an
\* absent field is never sent and id is always sent.
C23_UpdateBodySparse ==
    last.op = "adapter_update_token" =>
       LET body == last.value.body
           token_data == last.value.request
       IN  /\ DOMAIN body = {"id"} \cup {f \in TokenFields : token_data[f] # None}
           /\ body["id"] = Integer(token_data.id)
           /\ \A f \in DOMAIN body \ {"id"} :
                 IF token_data[f].kind = "Int"
                 THEN body[f] = Integer(token_data[f].int)
                 ELSE body[f] = token_data[f]

\* update_token sent a body for a request with present and absent fields,
\* an empty string among the present ones
C23_Witness ==
    /\ last.op = "adapter_update_token"
    /\ last.value.request.name = None
    /\ last.value.request.model_limits = Str("")
    /\ last.value.request.expired_time = SomeInt(-1)

(***************************************************************************)
(* Properties of SpecRoutine.                                              *)
(***************************************************************************)
\* how often the call was made on the session
Count(log, name, run_id) ==
    Cardinality({i \in DOMAIN log : log[i] = Call(name, run_id)})

\* C25: in a run of the termination routine, each enumerated session gets
\* exactly one kill_process; it gets one kill_process_by_pid, after that
\* kill_process, if and only if the kill_process returned an error or false;
\* a failure on one session does not keep the others from their attempts;
\* and when the enumeration fails no call is made.
C25_OneGracefulForcedOnFailure ==
    [][last'.op = "terminate" =>
          LET outcome == last'.value.outcome
              log == last'.value.log
              enumerated == IF outcome.sessions THEN running ELSE {}
          IN  /\ \A r \in enumerated :
                    /\ Count(log, "kill_process", r) = 1
                    /\ Count(log, "kill_process_by_pid", r)
                          = IF outcome.kill[r] \in {"Err", "Ok(false)"} THEN 1 ELSE 0
              /\ \A i \in DOMAIN log :
                    /\ log[i].run_id \in enumerated
                    /\ log[i].call = "kill_process_by_pid" =>
                          i > 1 /\ log[i - 1] = Call("kill_process", log[i].run_id)
              /\ ~outcome.sessions => log = << >>
              /\ killCalls' = killCalls \cup enumerated
              /\ forceCalls' = forceCalls
                                  \cup {r \in enumerated : outcome.kill[r] # "Ok(true)"}]_vars

\* a run in which kill_process and kill_process_by_pid both failed on the
\* first session and the second session got its kill_process all the same
C25_Witness ==
    /\ last.op = "terminate"
    /\ Len(last.value.log) >= 3
    /\ last.value.outcome.kill[last.value.log[1].run_id] = "Err"
    /\ ~last.value.outcome.forced[last.value.log[1].run_id]
    /\ last.value.log[2].call = "kill_process_by_pid"
    /\ last.value.log[3].call = "kill_process"
    /\ last.value.log[3].run_id # last.value.log[1].run_id

\* the commands that return "Station not found" for an id that is not stored
NotFoundErrCommands ==
    {"get_station_info", "add_station_token", "update_station_token",
     "delete_station_token", "get_token_user_info", "get_station_logs",
     "test_station_connection"}

\* the task leaves the block that read its station, and the store holds no
\* station of the id it asked for
LeavesWithoutStation(t) ==
    /\ manager_is_some
    /\ task[t].pc = "unlock_state"
    /\ task'[t].pc # "unlock_state"
    /\ ~has_id(stations, task[t].station_id)

\* C26: with the manager initialized and a station id that is not stored,
\* get_station_info, add_station_token, update_station_token,
\* delete_station_token, get_token_user_info, get_station_logs and
\* test_station_connection return "Station not found", list_station_tokens
\* returns an empty list and get_relay_station returns absent; the handler
\* returns from there, so that no request is sent.
C26_StationNotFound ==
    [][\A t \in Tasks :
          /\ LeavesWithoutStation(t) =>
                /\ task[t].cmd \in NotFoundErrCommands =>
                      task'[t].pc = "done" /\ task'[t].result = "Err(Station not found)"
                /\ task[t].cmd = "list_station_tokens" =>
                      task'[t].pc = "done" /\ task'[t].result = "Ok(empty)"
                /\ task[t].cmd = "get_relay_station" =>
                      task'[t].pc = "done" /\ task'[t].result = "Ok(None)"
          /\ task'[t].pc \in {"call_adapter", "in_flight"} =>
                is_some(task'[t].station)]_vars

\* test_station_connection returned "Station not found" for an id that is
\* not stored while another station is
C26_Witness ==
    \E t \in Tasks :
       /\ manager_is_some
       /\ task[t].pc = "done"
       /\ task[t].cmd = "test_station_connection"
       /\ task[t].result = "Err(Station not found)"
       /\ stations # {}
       /\ ~has_id(stations, task[t].station_id)

(***************************************************************************)
(* Properties of SpecMixed.                                                *)
(***************************************************************************)
\* the stored form of a value of the map in the column of its key
Stored(key, value) ==
    CASE key \in {"name", "api_url", "system_token", "token"} ->
            IF value.kind = "String" THEN value.str ELSE ""
      [] key \in {"description", "user_id"} ->
            IF value.kind = "String" THEN value ELSE None
      [] key = "enabled" -> IF value = Bool(TRUE) THEN 1 ELSE 0

\* the last command was update_token on a token that was stored
UpdatedStoredToken == last'.op = "update_token" /\ has_id(tokens, last'.value.str)

\* C27 as claimed: for every updates map handed to update_station, whatever
\* its mix of recognized and unrecognized keys and whatever the order of its
\* keys, each recognized column holds the stored form of its own key's
\* value, updated_at holds the time of the call, and only the row of the
\* given id is changed; the same for update_token, which stamps nothing.
C27_ColumnsTakeOwnValues ==
    [][/\ UpdatedStored =>
             LET id == last'.value.str
                 updates == last'.value.updates
                 after == RowOf(stations', id)
             IN /\ \A k \in DOMAIN updates \cap StationColumns :
                      after[k] = Stored(k, updates[k])
                /\ after.updated_at = clock
                /\ {r \in stations' : r.id # id} = {r \in stations : r.id # id}
       /\ UpdatedStoredToken =>
             LET id == last'.value.str
                 updates == last'.value.updates
                 after == RowOf(tokens', id)
             IN /\ \A k \in DOMAIN updates \cap TokenColumns :
                      after[k] = Stored(k, updates[k])
                /\ {t \in tokens' : t.id # id} = {t \in tokens : t.id # id}]_vars

\* the part of C27 that holds: whenever the map has a recognized key, each
\* recognized column takes the stored form of its own key's value, the other
\* columns but updated_at stay, updated_at takes the time of the call, and
\* the other rows stay
PassesAligned ==
    [][/\ (UpdatedStored /\ DOMAIN last'.value.updates \cap StationColumns # {}) =>
             LET id == last'.value.str
                 updates == last'.value.updates
                 before == RowOf(stations, id)
                 after == RowOf(stations', id)
             IN /\ \A k \in DOMAIN updates \cap StationColumns :
                      after[k] = Stored(k, updates[k])
                /\ \A c \in DOMAIN before \ (DOMAIN updates \cup {"updated_at"}) :
                      after[c] = before[c]
                /\ after.updated_at = clock
                /\ {r \in stations' : r.id # id} = {r \in stations : r.id # id}
       /\ UpdatedStoredToken =>
             LET id == last'.value.str
                 updates == last'.value.updates
                 before == RowOf(tokens, id)
                 after == RowOf(tokens', id)
             IN /\ \A k \in DOMAIN updates \cap TokenColumns :
                      after[k] = Stored(k, updates[k])
                /\ \A c \in DOMAIN before \ (DOMAIN updates \cap TokenColumns) :
                      after[c] = before[c]
                /\ {t \in tokens' : t.id # id} = {t \in tokens : t.id # id}]_vars

(***************************************************************************)
(* Properties of SpecRunning.                                              *)
(***************************************************************************)
\* the task waits for a mutex another task holds
Blocked(t) ==
    \/ task[t].pc = "lock_state" /\ stateLock # NoTask
    \/ task[t].pc = "lock_db" /\ dbLock # NoTask

\* the connection mutex is held and requested only under the manager-state
\* mutex, and a task that awaits or has returned holds neither
LockOrder ==
    \A t \in Tasks :
       /\ dbLock = t => stateLock = t
       /\ task[t].pc = "lock_db" => stateLock = t
       /\ task[t].pc = "lock_state" => stateLock # t /\ dbLock # t
       /\ task[t].pc \in {"call_adapter", "in_flight", "done", "idle"} =>
             stateLock # t /\ dbLock # t

\* not every running command waits for a mutex
NoDeadlock ==
    (\E t \in Tasks : task[t].pc # "idle") =>
       \E t \in Tasks : task[t].pc # "idle" /\ ~Blocked(t)

\* C28: deadlock freedom of the facade. Every command takes the
\* manager-state mutex first and the connection mutex only while it holds
\* that one, and holds neither when it awaits or returns; in no state does
\* every running command wait for a mutex; and every command that requests
\* a mutex gets it.
C28_DeadlockFree ==
    /\ [](LockOrder /\ NoDeadlock)
    /\ \A t \in Tasks :
          /\ (task[t].pc = "lock_state") ~> (stateLock = t)
          /\ (task[t].pc = "lock_db") ~> (dbLock = t)

\* one command runs its statement under both mutexes while the other waits
\* for the manager-state mutex
C28_Witness ==
    \E t, u \in Tasks :
       /\ task[t].pc = "query" /\ stateLock = t /\ dbLock = t
       /\ task[u].pc = "lock_state"

(***************************************************************************)
(* Properties of SpecCleared.                                              *)
(***************************************************************************)
\* C29: a successful clear, from any document and with any presets stored,
\* leaves the coordinator with no active override, and every command but a
\* switch keeps it there: is_provider_applied returns false and
\* detect_current_provider returns absent until the next switch.
C29_ClearedUntilSwitch ==
    [][/\ (last'.op = "clear" /\ last'.ok) => NoOverride(settings')
       /\ (NoOverride(settings) /\ last'.op # "switch") =>
             /\ NoOverride(settings')
             /\ last'.op = "is_applied" => last'.ok /\ last'.value = Bool(FALSE)
             /\ last'.op = "detect" => last'.ok /\ last'.value = None]_vars

\* is_provider_applied returned false on a document a clear has written,
\* while a preset of the canonical endpoint is stored
C29_Witness ==
    /\ last.op = "is_applied"
    /\ last.value = Bool(FALSE)
    /\ settings.env_is_some
    /\ NoOverride(settings)
    /\ settings.env["FOO"] = Str("bar")
    /\ \E i \in 1..Len(providers) : providers[i].base_url = CanonicalUrl

(***************************************************************************)
(* Properties of SpecPresets.                                              *)
(***************************************************************************)
\* no two presets of the list share an id
DistinctIds(provs) == \A i, j \in 1..Len(provs) : i # j => provs[i].id # provs[j].id

\* the list holds a preset of the id
StoredId(provs, id) == \E i \in 1..Len(provs) : provs[i].id = id

\* C30: preset ids stay unique. From a list with distinct ids, no sequence of
\* add_provider_config, update_provider_config and delete_provider_config
\* leaves two presets with one id; an add with a stored id, and an update or
\* a delete with an id that is not stored, return an error and leave the
\* list as it was.
C30_PresetIdsUnique ==
    /\ []DistinctIds(providers)
    /\ [][/\ (last'.op = "add_provider" /\ StoredId(providers, last'.config.id)) =>
                ~last'.ok /\ providers' = providers
          /\ (last'.op = "update_provider" /\ ~StoredId(providers, last'.config.id)) =>
                ~last'.ok /\ providers' = providers
          /\ (last'.op = "delete_provider" /\ ~StoredId(providers, last'.value.str)) =>
                ~last'.ok /\ providers' = providers]_vars

\* an add with the id of a stored preset was refused, and the list still
\* holds its two presets, the one of that id as it was
C30_Witness ==
    /\ last.op = "add_provider"
    /\ ~last.ok
    /\ Len(providers) = 2
    /\ \E i \in 1..Len(providers) :
          providers[i].id = last.config.id /\ providers[i].base_url # last.config.base_url
====
